---- MODULE Spec2Model ----
(***************************************************************************)
(* Model of the session orchestration engine of vls-speech2text.           *)
(*                                                                         *)
(* Spec     one VideoTranscriptionSession of src/web_app.py together with  *)
(*          the routes that drive it: the start() thread, the background   *)
(*          worker (_process_audio) or SRT monitor (_monitor_whisper_srt), *)
(*          the stop_session and cleanup_session requests, and the child   *)
(*          processes (segmenter, encoder) as the environment.             *)
(* SpecCLI  the subtitle loop of launch_vlc_with_subtitles in              *)
(*          src/vlc_speech2text.py, which restarts the encoder on every    *)
(*          third cue.                                                     *)
(***************************************************************************)
EXTENDS Naturals, Sequences, FiniteSets, TLC

\* ---------------------------------------------------------------- bounds
\* Number of chunk files the segmenter produces in a run.
MaxChunks == 2
\* Number of stop/cleanup requests in a run.
MaxOps == 2
\* Number of chunk files the segmenter produces in a run of the CLI loop.
CliChunks == 4
\* Number of chunk files the segmenter produces in a long run of the worker.
ScanChunks == 11
\* Number of those chunk files that ever get audio data.
ScanData == 1
\* Number of chunk files in a run of the worker that no request disturbs.
TextChunks == 5

\* Length of the longest cue list written and parsed back.
SrtCues == 2
\* Number of chunk indices the cues of such a list are drawn from.
SrtChunks == 3
\* Number of start_transcription requests the server receives.
MaxRequests == 3
\* Number of cues a session of the server stores.
AppCues == 1
\* Largest number of cues in the store when a get_status request arrives.
StatusCues == 11

\* ------------------------------------------------------ program constants
\* chunk_duration, the default of VideoTranscriptionSession.__init__.
ChunkDuration == 10
\* range(self.chunk_counter, self.chunk_counter + 10)
Lookahead == 10
\* if subtitle_index % 3 == 0 in launch_vlc_with_subtitles
RestartEvery == 3
\* all_subtitles[-10:] in get_status
RecentCues == 10

VARIABLES
    \* ---- session fields (VideoTranscriptionSession.__init__)
    status,                 \* self.status
    error,                  \* self.error ("none" is None)
    running,                \* self.running
    use_ffmpeg_whisper,     \* self.use_ffmpeg_whisper
    stt,                    \* self.stt is not None
    ffmpeg_video_process,   \* handle: 0 is None, else an index into enc
    ffmpeg_audio_process,   \* handle: 0 is None, 1 is the segmenter process
    all_subtitles,          \* self.all_subtitles
    new_subtitles,          \* new_subtitles of the SRT parser
    subtitle_index,         \* self.subtitle_index
    chunk_counter,          \* self.chunk_counter
    \* ---- file system
    srt,                    \* the subtitle file: [exists, cues]
    hls_dir,                \* the HLS directory exists
    chunk_dir,              \* the worker's scratch chunk directory exists
    files,                  \* chunk_dir/chunk_%04d.wav: "none", "empty", "data"
    \* ---- child processes
    enc,                    \* encoder processes, in launch order: their states
    seg,                    \* the segmenter process: its state
    seg_next,               \* index of the next chunk the segmenter creates
    player,                 \* the player process of the CLI loop
    \* ---- threads
    spc,                    \* position of the start() thread
    wpc,                    \* position of the worker
    wi,                     \* the worker's loop variable i
    wbase,                  \* first index of the worker's current range()
    wtext,                  \* text of the transcription in flight
    processed_chunks,       \* the worker's local set processed_chunks
    mpc,                    \* position of the SRT monitor thread
    late,                   \* a request that found the session before
                            \* cleanup_session deleted it, not yet served
    sessions,               \* the session is in the registry
    \* ---- the server (module globals and request threads of web_app.py)
    session_counter,        \* the global session_counter
    reqs,                   \* start_transcription requests: position and locals
    registry,               \* the global dict sessions: id -> session object
    objs,                   \* the session objects created by the requests
    srt_files,              \* TEMP_DIR/subs_session_<n>.srt, by n
    getreq,                 \* a get_status request: position and locals
    \* ---- the language of a transcription call
    language,               \* the language hint given by the user
    lang_path,              \* the code path that makes the call
    lang_passed,            \* the language the recognizer gets: "unset" is
                            \* None or no argument, "pending" no call yet
    \* ---- further request threads
    stopreq,                \* a thread inside stop(): position, calls returned
    \* ---- SimpleVideoSession (web_app_simple.py)
    translated_subtitles,   \* self.translated_subtitles
    simple,                 \* the _monitor_srt thread: position and locals
    \* ---- the session worker and the CLI loop fed the same chunks
    loops,                  \* inputs fed, and each loop's locals and file
    \* ---- history (observations only; no action reads them to decide)
    ops,                    \* requests admitted so far
    calls,                  \* recognizer invocations per chunk index
    okChunks,               \* chunk indices whose transcription gave text
    hist                    \* flags recording which events have happened

server_vars == << session_counter, reqs, registry, objs, srt_files, getreq >>

lang_vars == << language, lang_path, lang_passed >>

simple_vars == << translated_subtitles, simple >>

ext_vars == << stopreq, simple_vars, loops >>

vars == << status, error, running, use_ffmpeg_whisper, new_subtitles, server_vars, lang_vars, ext_vars, stt,
           ffmpeg_video_process, ffmpeg_audio_process, all_subtitles,
           subtitle_index, chunk_counter, srt, hls_dir, chunk_dir, files,
           enc, seg, seg_next, player, spc, wpc, wi, wbase, wtext,
           processed_chunks, mpc, late, sessions,
           ops, calls, okChunks, hist >>

\* ---------------------------------------------------------------- helpers
Chunks == 0 .. (MaxChunks - 1)

\* The chunk indices of the run: the domain of files.
NumChunks == Cardinality(DOMAIN files)

\* A worker that leaves the chunk file where it is.
KeepFile(fs, i) == fs

\* os.unlink(chunk_file)
Unlink(fs, i) == [fs EXCEPT ![i] = "none"]

\* A child process is "running", "killsent" (SIGKILL sent, not yet dead),
\* "exit0"/"exit1" (exited, not yet waited for) or "reaped".
Alive(p) == p \in {"running", "killsent"}

\* Popen.poll() is None
PollIsNone(p) == Alive(p)

\* Popen.poll() reaps a child that has exited.
Polled(p) == IF p \in {"exit0", "exit1"} THEN "reaped" ELSE p

\* result["text"].strip()
Strip(raw) ==
    CASE raw = "   " -> ""
      [] raw = " hello " -> "hello"
      [] OTHER -> raw

\* What the recognizer can return for a chunk.
RawTexts == {"", "   ", " hello "}

\* The cue the loops build from chunk i.
MakeCue(idx, i, text) ==
    [index |-> idx, start |-> i * ChunkDuration,
     end |-> (i + 1) * ChunkDuration, text |-> text]

\* The subtitle file with the cues c in it; w says that the worker holds it
\* open for writing.
SrtFile(c) == [exists |-> TRUE, cues |-> c, w |-> FALSE]

\* No file at srt_path.
NoSrtFile == [exists |-> FALSE, cues |-> << >>, w |-> FALSE]

\* The placeholder cue _init_srt_file writes.
Placeholder == [index |-> 1, start |-> 0, end |-> 1, text |-> "Caricamento sottotitoli..."]

\* A session constructed with the MP4 sink.
use_mp4_stream == FALSE

\* self.use_hls_stream, set in __init__ and never reassigned.
use_hls_stream == TRUE

NoHist == [stopRunning |-> FALSE,   \* stop_session was answered for a session whose status was running
           stopDone |-> FALSE,      \* some stop() has returned
           stopMid |-> FALSE,       \* stop() ran during a transcription
           failedInWindow |-> FALSE,\* the encoder exited nonzero before start() verified it
           cleanups |-> 0,          \* cleanup() calls that have returned
           raised |-> {},           \* chunk indices on which the recognizer raised
           startFailed |-> FALSE,   \* a step of start() has raised
           startReturn |-> "none",  \* what start() returned: "True" or "False"
           cleanedAfterFail |-> FALSE, \* a cleanup() ran after start() had returned False
           actor |-> 0,             \* the session object the last server step worked on
           gone |-> {},             \* the ids for which a cleanup request has been served
           launchCalls |-> 0,       \* calls of _launch_ffmpeg_process
           restarts |-> 0,          \* restarts of the encoder the CLI loop has begun
           claimed |-> [i \in Chunks |-> 0], \* processed_chunks.add() calls per chunk index
           zeroSize |-> {},         \* chunk indices whose file was empty when the worker sized it
           heard |-> << >>,         \* what the recognizer returned: [chunk, text] in order
           flushed |-> FALSE,       \* the worker has written the subtitle file
           justCleaned |-> FALSE]   \* cleanup() has returned and nothing has happened since

\* The server as one session sees it: the session was created as session_1,
\* no start_transcription and no get_status request is in progress.
NoGetReq == [pc |-> "g_idle", known |-> FALSE, resp |-> << >>]

\* No thread is inside stop().
NoStopReq == [pc |-> "p_idle", n |-> 0]

\* The _monitor_srt thread before its first turn: last_size = 0.
NoMonitor == [pc |-> "sm_loop", last_size |-> 0, size |-> 0, matches |-> << >>,
              k |-> 1]

\* No thread is inside stop(), and no SimpleVideoSession is at work.
\* What both chunk loops start from: no cue, subtitle_index = 1,
\* chunk_counter = 0 (web_app.py 116-117, vlc_speech2text.py 477-478) and the
\* subtitle file with its placeholder cue.
LoopStart ==
    [all_subtitles |-> << >>, subtitle_index |-> 1, chunk_counter |-> 0,
     srt |-> SrtFile(<< Placeholder >>)]

\* No chunk has been fed to either loop.
NoLoops == [inputs |-> << >>, w |-> LoopStart, wn |-> 0, c |-> LoopStart,
            cn |-> 0]

ExtAtRest ==
    /\ loops = NoLoops
    /\ stopreq = NoStopReq
    /\ translated_subtitles = << >>
    /\ simple = NoMonitor

ServerAtRest ==
    /\ ExtAtRest
    /\ language = "none"
    /\ lang_path = "none"
    /\ lang_passed = "pending"
    /\ session_counter = 1
    /\ reqs = << >>
    /\ registry = << >>
    /\ objs = << >>
    /\ srt_files = << >>
    /\ getreq = NoGetReq

\* ------------------------------------------------------------------- Init
\* The state right after start_transcription has built the session,
\* registered it and spawned the thread that will run session.start().
Init ==
    /\ status = "initializing"
    /\ error = "none"
    /\ running = FALSE
    /\ use_ffmpeg_whisper \in BOOLEAN
    /\ new_subtitles = << >>
    /\ ServerAtRest
    /\ stt = FALSE
    /\ ffmpeg_video_process = 0
    /\ ffmpeg_audio_process = 0
    /\ all_subtitles = << >>
    /\ subtitle_index = 1
    /\ chunk_counter = 0
    /\ srt = SrtFile(<< Placeholder >>)
    /\ hls_dir = TRUE
    /\ chunk_dir = FALSE
    /\ files = [i \in Chunks |-> "none"]
    /\ enc = << >>
    /\ seg = "none"
    /\ seg_next = 0
    /\ player = "none"
    /\ spc = "s_begin"
    /\ wpc = "w_idle"
    /\ wi = 0
    /\ wbase = 0
    /\ wtext = ""
    /\ processed_chunks = {}
    /\ mpc = "m_idle"
    /\ late = "none"
    /\ sessions = TRUE
    /\ ops = 0
    /\ calls = [i \in Chunks |-> 0]
    /\ okChunks = << >>
    /\ hist = NoHist

\* A step of a thread other than the request handlers.
Other(h) == [h EXCEPT !.justCleaned = FALSE]

\* chunk_dir/chunk_{i:04d}.wav
FileAt(i) == IF i \in DOMAIN files THEN files[i] ELSE "none"

\* terminate(); wait(timeout=3); on TimeoutExpired kill(); wait()
Terminated(p) == "reaped"

\* ------------------------------------------------------ the start() thread
\* Variables start() never writes.
StartKeeps ==
    UNCHANGED << use_ffmpeg_whisper, new_subtitles, server_vars, lang_vars, ext_vars, ffmpeg_audio_process, all_subtitles,
                 subtitle_index, chunk_counter, hls_dir, chunk_dir, files,
                 seg, seg_next, player, wi, wbase, wtext, processed_chunks,
                 late, sessions, ops, calls, okChunks >>

\* A start() without its try: what a step raises leaves start().
StartCatchNone == "s_raised"

\* try: ... except Exception as e: - the handler around the body of start().
StartCatch == "s_exc"

\* self.status = "starting"
StartBegin ==
    /\ spc = "s_begin"
    /\ status' = "starting"
    /\ spc' = "s_load"
    /\ hist' = Other(hist)
    /\ UNCHANGED << error, running, stt, ffmpeg_video_process, srt, enc, wpc, mpc >>
    /\ StartKeeps

\* self.stt = VLCSpeechToText(...); self.stt.load_model(), which may raise.
StartLoadModel ==
    /\ spc = "s_load"
    /\ \/ /\ use_ffmpeg_whisper
          /\ spc' = "s_hls"
          /\ stt' = stt
       \/ /\ ~use_ffmpeg_whisper
          /\ spc' = "s_hls"
          /\ stt' = TRUE
       \/ /\ ~use_ffmpeg_whisper
          /\ spc' = StartCatch
          /\ stt' = stt
    /\ hist' = [Other(hist) EXCEPT !.startFailed = @ \/ spc' # "s_hls"]
    /\ UNCHANGED << status, error, running, ffmpeg_video_process, srt, enc, wpc, mpc >>
    /\ StartKeeps

\* for f in os.listdir(self.hls_dir): raises when the directory is gone.
StartCleanHls ==
    /\ spc = "s_hls"
    /\ spc' = IF hls_dir THEN "s_run" ELSE StartCatch
    /\ hist' = [Other(hist) EXCEPT !.startFailed = @ \/ ~hls_dir]
    /\ UNCHANGED << status, error, running, stt, ffmpeg_video_process, srt, enc, wpc, mpc >>
    /\ StartKeeps

\* self.running = True
StartSetRunning ==
    /\ spc = "s_run"
    /\ running' = TRUE
    /\ spc' = "s_status"
    /\ hist' = Other(hist)
    /\ UNCHANGED << status, error, stt, ffmpeg_video_process, srt, enc, wpc, mpc >>
    /\ StartKeeps

\* self.status = "running"
StartSetStatus ==
    /\ spc = "s_status"
    /\ status' = "running"
    /\ spc' = "s_spawn"
    /\ hist' = Other(hist)
    /\ UNCHANGED << error, running, stt, ffmpeg_video_process, srt, enc, wpc, mpc >>
    /\ StartKeeps

\* threading.Thread(target=self._monitor_whisper_srt | self._process_audio).start()
StartSpawn ==
    /\ spc = "s_spawn"
    /\ IF use_ffmpeg_whisper
         THEN mpc' = "m_loop" /\ wpc' = wpc
         ELSE wpc' = "w_init" /\ mpc' = mpc
    /\ spc' = "s_srt"
    /\ hist' = Other(hist)
    /\ UNCHANGED << status, error, running, stt, ffmpeg_video_process, srt, enc >>
    /\ StartKeeps

\* if not os.path.exists(self.srt_path): self._init_srt_file()
StartCheckSrt ==
    /\ spc = "s_srt"
    /\ srt' = IF srt.exists THEN srt ELSE SrtFile(<< Placeholder >>)
    /\ spc' = "s_launch"
    /\ hist' = Other(hist)
    /\ UNCHANGED << status, error, running, stt, ffmpeg_video_process, enc, wpc, mpc >>
    /\ StartKeeps

\* _launch_ffmpeg_process with the native filter: subprocess.Popen succeeds.
LaunchNative ==
    /\ use_ffmpeg_whisper
    /\ enc' = Append(enc, "running")
    /\ ffmpeg_video_process' = Len(enc) + 1
    /\ spc' = "s_verify"
    /\ status' = status
    /\ hist' = [Other(hist) EXCEPT !.launchCalls = @ + 1]

\* _launch_ffmpeg_process raises: Popen fails, or, without the native filter,
\* restart_ffmpeg_video_process is called with the keyword hls_output_dir,
\* which its signature does not have (TypeError).  The except clause sets
\* status before it re-raises.
LaunchRaises ==
    /\ enc' = enc
    /\ ffmpeg_video_process' = ffmpeg_video_process
    /\ status' = "error"
    /\ spc' = "s_launch_msg"
    /\ hist' = [Other(hist) EXCEPT !.startFailed = TRUE,
                                   !.launchCalls = @ + 1]

StartLaunch ==
    /\ spc = "s_launch"
    /\ \/ LaunchNative
       \/ LaunchRaises
    /\ UNCHANGED << error, running, stt, srt, wpc, mpc >>
    /\ StartKeeps

\* self.error = f"Errore avvio FFmpeg: {e}"; raise
StartLaunchMsg ==
    /\ spc = "s_launch_msg"
    /\ error' = "Errore avvio FFmpeg"
    /\ spc' = StartCatch
    /\ hist' = Other(hist)
    /\ UNCHANGED << status, running, stt, ffmpeg_video_process, srt, enc, wpc, mpc >>
    /\ StartKeeps

\* time.sleep(3); if self.ffmpeg_video_process.poll() is not None: print(...)
\* return True.  With the handle cleared by stop() the poll raises.
StartVerify ==
    /\ spc = "s_verify"
    /\ IF ffmpeg_video_process = 0
         THEN /\ spc' = StartCatch
              /\ enc' = enc
              /\ hist' = [Other(hist) EXCEPT !.startFailed = TRUE]
         ELSE /\ spc' = "s_done"
              /\ enc' = [enc EXCEPT ![ffmpeg_video_process] = Polled(@)]
              /\ hist' = [Other(hist) EXCEPT !.startReturn = "True"]
    /\ UNCHANGED << status, error, running, stt, ffmpeg_video_process, srt, wpc, mpc >>
    /\ StartKeeps

\* except Exception as e: self.status = "error"
StartExcept ==
    /\ spc = "s_exc"
    /\ status' = "error"
    /\ spc' = "s_exc_msg"
    /\ hist' = Other(hist)
    /\ UNCHANGED << error, running, stt, ffmpeg_video_process, srt, enc, wpc, mpc >>
    /\ StartKeeps

\* self.error = str(e); return False
StartExceptMsg ==
    /\ spc = "s_exc_msg"
    /\ error' = "Errore avvio sessione"
    /\ spc' = "s_done"
    /\ hist' = [Other(hist) EXCEPT !.startReturn = "False"]
    /\ UNCHANGED << status, running, stt, ffmpeg_video_process, srt, enc, wpc, mpc >>
    /\ StartKeeps

StartThread ==
    \/ StartBegin
    \/ StartLoadModel
    \/ StartCleanHls
    \/ StartSetRunning
    \/ StartSetStatus
    \/ StartSpawn
    \/ StartCheckSrt
    \/ StartLaunch
    \/ StartLaunchMsg
    \/ StartVerify
    \/ StartExcept
    \/ StartExceptMsg

\* ------------------------------------------- the worker (_process_audio)
\* Variables the worker never writes.
WorkerKeeps ==
    UNCHANGED << running, use_ffmpeg_whisper, new_subtitles, server_vars, lang_vars, ext_vars, stt, ffmpeg_video_process,
                 hls_dir, seg_next, player, spc, mpc, late, sessions, ops >>

\* The worker's loop moves on to index i + 1 of range(wbase, wbase + 10), or
\* to time.sleep(0.5) and the while test when the range is used up.  Indices
\* past the last chunk of the run name files the segmenter never creates, so
\* their iterations change nothing and are passed over in the same step.
NextIndex(i) ==
    IF i + 1 < wbase + Lookahead /\ i + 1 < NumChunks
    THEN wpc' = "w_scan" /\ wi' = i + 1
    ELSE wpc' = "w_while" /\ wi' = i

\* chunk_dir = tempfile.mkdtemp(...); processed_chunks = set();
\* self.ffmpeg_audio_process = subprocess.Popen(ffmpeg_cmd, ...)
WorkerInit ==
    /\ wpc = "w_init"
    /\ chunk_dir' = TRUE
    /\ processed_chunks' = {}
    /\ \/ /\ seg' = "running"
          /\ ffmpeg_audio_process' = 1
          /\ wpc' = "w_while"
       \/ /\ seg' = seg
          /\ ffmpeg_audio_process' = ffmpeg_audio_process
          /\ wpc' = "w_err"
    /\ hist' = Other(hist)
    /\ UNCHANGED << status, error, all_subtitles, subtitle_index, chunk_counter,
                    srt, files, enc, wi, wbase, wtext, calls, okChunks >>
    /\ WorkerKeeps

\* while self.running and (...): the read of self.running
WhileRunning == running

WorkerWhile ==
    /\ wpc = "w_while"
    /\ wpc' = IF WhileRunning THEN "w_cond" ELSE "w_finally"
    /\ hist' = Other(hist)
    /\ UNCHANGED << status, error, ffmpeg_audio_process, all_subtitles,
                    subtitle_index, chunk_counter, srt, chunk_dir, files, enc,
                    seg, wi, wbase, wtext, processed_chunks, calls, okChunks >>
    /\ WorkerKeeps

\* self.ffmpeg_audio_process.poll() is None or
\* self.ffmpeg_video_process.poll() is None
\* A handle that is None raises AttributeError, caught by the outer except.
\* On True the for loop starts: range(self.chunk_counter, self.chunk_counter + 10).
WorkerCond ==
    /\ wpc = "w_cond"
    /\ IF ffmpeg_audio_process = 0
       THEN wpc' = "w_err" /\ UNCHANGED << seg, enc, wi, wbase >>
       ELSE /\ seg' = Polled(seg)
            /\ IF PollIsNone(seg)
               THEN /\ wpc' = "w_scan"
                    /\ wbase' = chunk_counter
                    /\ wi' = chunk_counter
                    /\ enc' = enc
               ELSE IF ffmpeg_video_process = 0
                    THEN wpc' = "w_err" /\ UNCHANGED << enc, wi, wbase >>
                    ELSE /\ enc' = [enc EXCEPT ![ffmpeg_video_process] = Polled(@)]
                         /\ IF PollIsNone(enc[ffmpeg_video_process])
                            THEN /\ wpc' = "w_scan"
                                 /\ wbase' = chunk_counter
                                 /\ wi' = chunk_counter
                            ELSE wpc' = "w_finally" /\ UNCHANGED << wi, wbase >>
    /\ hist' = Other(hist)
    /\ UNCHANGED << status, error, ffmpeg_audio_process, all_subtitles,
                    subtitle_index, chunk_counter, srt, chunk_dir, files,
                    wtext, processed_chunks, calls, okChunks >>
    /\ WorkerKeeps

\* A scan that has lost the processed set: os.path.exists(chunk_file) alone.
IsPresentChunk(i) == FileAt(i) # "none"

\* os.path.exists(chunk_file) and chunk_file not in processed_chunks
IsNewChunk(i) == FileAt(i) # "none" /\ i \notin processed_chunks

\* One iteration of the for loop up to time.sleep(0.5):
\* a new chunk is claimed with processed_chunks.add(chunk_file).
WorkerScan ==
    /\ wpc = "w_scan"
    /\ IF IsNewChunk(wi)
       THEN /\ processed_chunks' = processed_chunks \cup {wi}
            /\ wpc' = "w_settle"
            /\ wi' = wi
            /\ hist' = [Other(hist) EXCEPT !.claimed[wi] = @ + 1]
       ELSE /\ processed_chunks' = processed_chunks
            /\ NextIndex(wi)
            /\ hist' = Other(hist)
    /\ UNCHANGED << status, error, ffmpeg_audio_process, all_subtitles,
                    subtitle_index, chunk_counter, srt, chunk_dir, files, enc,
                    seg, wbase, wtext, calls, okChunks >>
    /\ WorkerKeeps

\* A worker that does not look at the size.
NeverZeroSize(i) == FALSE

\* os.path.getsize(chunk_file) == 0
IsZeroSize(i) == files[i] = "empty"

\* if os.path.getsize(chunk_file) == 0: continue
WorkerSettle ==
    /\ wpc = "w_settle"
    /\ IF IsZeroSize(wi)
       THEN NextIndex(wi)
       ELSE wpc' = "w_transcribe" /\ wi' = wi
    /\ hist' = [Other(hist) EXCEPT !.zeroSize =
                    IF files[wi] = "empty" THEN @ \cup {wi} ELSE @]
    /\ UNCHANGED << status, error, ffmpeg_audio_process, all_subtitles,
                    subtitle_index, chunk_counter, srt, chunk_dir, files, enc,
                    seg, wbase, wtext, processed_chunks, calls, okChunks >>
    /\ WorkerKeeps

\* A worker whose inner try does not catch what the recognizer raises: the
\* exception reaches the except of the whole loop.
TranscribeExceptOuter == "w_err"

\* except Exception as e: print(f"Errore trascrizione chunk: {e}") - the
\* handler of the try around one chunk.
TranscribeExcept == "w_except"

\* result = self.stt.model.transcribe(chunk_file, ...): the call begins.
\* With self.stt cleared by cleanup() the attribute access raises inside the
\* inner try.
WorkerTranscribe ==
    /\ wpc = "w_transcribe"
    /\ IF stt
       THEN /\ calls' = [calls EXCEPT ![wi] = @ + 1]
            /\ wpc' = "w_in_call"
       ELSE /\ calls' = calls
            /\ wpc' = TranscribeExcept
    /\ hist' = Other(hist)
    /\ UNCHANGED << status, error, ffmpeg_audio_process, all_subtitles,
                    subtitle_index, chunk_counter, srt, chunk_dir, files, enc,
                    seg, wi, wbase, wtext, processed_chunks, okChunks >>
    /\ WorkerKeeps

\* A worker that makes a cue of whatever comes back.
AnyText(t) == TRUE

\* if text:
HasText(t) == t # ""

\* The call returns: text = result["text"].strip(); if text: ...
\* or the recognizer raises.
WorkerReturn ==
    /\ wpc = "w_in_call"
    /\ \/ \E raw \in RawTexts :
            /\ wtext' = Strip(raw)
            /\ IF HasText(Strip(raw))
               THEN wpc' = "w_append" /\ okChunks' = Append(okChunks, wi)
               ELSE wpc' = "w_unlink" /\ okChunks' = okChunks
            /\ hist' = [Other(hist) EXCEPT !.heard =
                            Append(@, [chunk |-> wi, text |-> Strip(raw)])]
       \/ /\ wpc' = TranscribeExcept
          /\ hist' = [Other(hist) EXCEPT !.raised = @ \cup {wi}]
          /\ UNCHANGED << wtext, okChunks >>
    /\ UNCHANGED << status, error, ffmpeg_audio_process, all_subtitles,
                    subtitle_index, chunk_counter, srt, chunk_dir, files, enc,
                    seg, wi, wbase, processed_chunks, calls >>
    /\ WorkerKeeps

\* subtitle = {'index': self.subtitle_index, 'start': i * chunk_duration, ...}
NewCue(i, text) == MakeCue(subtitle_index, i, text)

\* self.all_subtitles.append(subtitle)
WorkerAppend ==
    /\ wpc = "w_append"
    /\ all_subtitles' = Append(all_subtitles, NewCue(wi, wtext))
    /\ wpc' = "w_flush"
    /\ hist' = Other(hist)
    /\ UNCHANGED << status, error, ffmpeg_audio_process, subtitle_index,
                    chunk_counter, srt, chunk_dir, files, enc, seg, wi, wbase,
                    wtext, processed_chunks, calls, okChunks >>
    /\ WorkerKeeps

\* A loop that forgets the increment.
SameSubtitleIndex == subtitle_index

\* self.subtitle_index += 1
NextSubtitleIndex == subtitle_index + 1

\* with open(self.srt_path, 'w', encoding='utf-8') as f: the file is created
\* or truncated.
WorkerOpenSrt ==
    /\ wpc = "w_flush"
    /\ srt' = [exists |-> TRUE, cues |-> << >>, w |-> TRUE]
    /\ wpc' = "w_close"
    /\ hist' = Other(hist)
    /\ UNCHANGED << status, error, ffmpeg_audio_process, all_subtitles,
                    subtitle_index, chunk_counter, chunk_dir, files, enc, seg,
                    wi, wbase, wtext, processed_chunks, calls, okChunks >>
    /\ WorkerKeeps

\* for sub in self.all_subtitles: f.write(...), and the with block closes the
\* file: the cues written (far less text than the 8 KB write buffer) reach
\* the file at the close.  A file that cleanup() has unlinked in the meantime
\* is written without a name.  Then "if not self.use_hls_stream" (402-432):
\* the encoder is terminated and _launch_ffmpeg_process is called again,
\* which, in the mode that has a worker, raises on the keyword hls_output_dir
\* after setting status and error (149-150); the worker catches it (429).
\* Then self.subtitle_index += 1.
WorkerFlush ==
    /\ wpc = "w_close"
    /\ srt' = IF srt.w THEN SrtFile(all_subtitles) ELSE srt
    /\ IF use_hls_stream
       THEN /\ UNCHANGED << status, error, enc >>
            /\ hist' = [Other(hist) EXCEPT !.flushed = TRUE]
       ELSE /\ enc' = IF ffmpeg_video_process = 0 THEN enc
                      ELSE [enc EXCEPT ![ffmpeg_video_process] = Terminated(@)]
            /\ status' = "error"
            /\ error' = "Errore avvio FFmpeg"
            /\ hist' = [Other(hist) EXCEPT !.flushed = TRUE,
                                           !.launchCalls = @ + 1]
    /\ subtitle_index' = NextSubtitleIndex
    /\ wpc' = "w_unlink"
    /\ UNCHANGED << ffmpeg_audio_process, all_subtitles,
                    chunk_counter, chunk_dir, files, seg, wi, wbase,
                    wtext, processed_chunks, calls, okChunks >>
    /\ WorkerKeeps

\* A worker that sets the watermark to the chunk it has just transcribed.
KeepWatermark(i) == i

\* self.chunk_counter = i + 1
NextWatermark(i) == i + 1

\* os.unlink(chunk_file); self.chunk_counter = i + 1
WorkerUnlink ==
    /\ wpc = "w_unlink"
    /\ files' = Unlink(files, wi)
    /\ chunk_counter' = NextWatermark(wi)
    /\ NextIndex(wi)
    /\ hist' = Other(hist)
    /\ UNCHANGED << status, error, ffmpeg_audio_process, all_subtitles,
                    subtitle_index, srt, chunk_dir, enc, seg, wbase, wtext,
                    processed_chunks, calls, okChunks >>
    /\ WorkerKeeps

\* except Exception: if os.path.exists(chunk_file): os.unlink(chunk_file)
WorkerExcept ==
    /\ wpc = "w_except"
    /\ files' = Unlink(files, wi)
    /\ NextIndex(wi)
    /\ hist' = Other(hist)
    /\ UNCHANGED << status, error, ffmpeg_audio_process, all_subtitles,
                    subtitle_index, chunk_counter, srt, chunk_dir, enc, seg,
                    wbase, wtext, processed_chunks, calls, okChunks >>
    /\ WorkerKeeps

\* except Exception as e: self.status = "error"
WorkerError ==
    /\ wpc = "w_err"
    /\ status' = "error"
    /\ wpc' = "w_err_msg"
    /\ hist' = Other(hist)
    /\ UNCHANGED << error, ffmpeg_audio_process, all_subtitles, subtitle_index,
                    chunk_counter, srt, chunk_dir, files, enc, seg, wi, wbase,
                    wtext, processed_chunks, calls, okChunks >>
    /\ WorkerKeeps

\* self.error = str(e)
WorkerErrorMsg ==
    /\ wpc = "w_err_msg"
    /\ error' = "Errore processamento audio"
    /\ wpc' = "w_finally"
    /\ hist' = Other(hist)
    /\ UNCHANGED << status, ffmpeg_audio_process, all_subtitles, subtitle_index,
                    chunk_counter, srt, chunk_dir, files, enc, seg, wi, wbase,
                    wtext, processed_chunks, calls, okChunks >>
    /\ WorkerKeeps

\* finally: for f in os.listdir(chunk_dir): os.unlink(...)
WorkerFinally ==
    /\ wpc = "w_finally"
    /\ files' = [i \in DOMAIN files |-> "none"]
    /\ wpc' = "w_rmdir"
    /\ hist' = Other(hist)
    /\ UNCHANGED << status, error, ffmpeg_audio_process, all_subtitles,
                    subtitle_index, chunk_counter, srt, chunk_dir, enc, seg,
                    wi, wbase, wtext, processed_chunks, calls, okChunks >>
    /\ WorkerKeeps

\* os.rmdir(chunk_dir), which fails (except: pass) on a directory that a
\* still running segmenter has written to in the meantime.
WorkerRmdir ==
    /\ wpc = "w_rmdir"
    /\ chunk_dir' = IF \A i \in DOMAIN files : files[i] = "none" THEN FALSE ELSE chunk_dir
    /\ wpc' = "w_done"
    /\ hist' = Other(hist)
    /\ UNCHANGED << status, error, ffmpeg_audio_process, all_subtitles,
                    subtitle_index, chunk_counter, srt, files, enc, seg, wi,
                    wbase, wtext, processed_chunks, calls, okChunks >>
    /\ WorkerKeeps

Worker ==
    \/ WorkerInit
    \/ WorkerWhile
    \/ WorkerCond
    \/ WorkerScan
    \/ WorkerSettle
    \/ WorkerTranscribe
    \/ WorkerReturn
    \/ WorkerAppend
    \/ WorkerOpenSrt
    \/ WorkerFlush
    \/ WorkerUnlink
    \/ WorkerExcept
    \/ WorkerError
    \/ WorkerErrorMsg
    \/ WorkerFinally
    \/ WorkerRmdir

\* --------------------------------- the SRT monitor (_monitor_whisper_srt)
\* The cue list the monitor's regular expression reads from the file:
\* idx = int(match[0]), the two times, text = match[9].strip().
ParseSrt(f) == [k \in DOMAIN f.cues |-> [f.cues[k] EXCEPT !.text = Strip(@)]]

\* One turn of "while self.running": the file is read and parsed, and
\* self.all_subtitles is replaced when the parse has more cues.  (A file whose
\* size and mtime are unchanged is not read again; reading it again would give
\* the same parse and so no update.)
MonitorPoll ==
    /\ mpc = "m_loop"
    /\ IF ~running
       THEN mpc' = "m_done" /\ UNCHANGED << all_subtitles, subtitle_index >>
       ELSE /\ mpc' = mpc
            /\ srt.exists
            /\ Len(ParseSrt(srt)) > Len(all_subtitles)
            /\ all_subtitles' = ParseSrt(srt)
            /\ subtitle_index' = Len(ParseSrt(srt)) + 1
    /\ hist' = Other(hist)
    /\ UNCHANGED << status, error, running, use_ffmpeg_whisper, new_subtitles, server_vars, lang_vars, ext_vars, stt,
                    ffmpeg_video_process, ffmpeg_audio_process, chunk_counter,
                    srt, hls_dir, chunk_dir, files, enc, seg, seg_next, player,
                    spc, wpc, wi, wbase, wtext, processed_chunks, late,
                    sessions, ops, calls, okChunks >>

\* ------------------------------------------- child processes (environment)
EnvKeeps ==
    UNCHANGED << status, error, running, use_ffmpeg_whisper, new_subtitles, server_vars, lang_vars, ext_vars, stt,
                 ffmpeg_video_process, ffmpeg_audio_process, all_subtitles,
                 subtitle_index, chunk_counter, hls_dir, chunk_dir, player,
                 spc, wpc, wi, wbase, wtext, processed_chunks, mpc, late,
                 sessions, ops, calls, okChunks >>

\* The segmenter opens chunk seg_next; the file is empty until data is written.
SegCreate ==
    /\ seg = "running"
    /\ chunk_dir
    /\ seg_next < NumChunks
    /\ \E c \in {"empty", "data"} : files' = [files EXCEPT ![seg_next] = c]
    /\ seg_next' = seg_next + 1
    /\ hist' = Other(hist)
    /\ UNCHANGED << srt, enc, seg >>
    /\ EnvKeeps

\* The segmenter writes audio into the chunk it has open.
SegFill ==
    /\ seg = "running"
    /\ seg_next > 0
    /\ files[seg_next - 1] = "empty"
    /\ files' = [files EXCEPT ![seg_next - 1] = "data"]
    /\ hist' = Other(hist)
    /\ UNCHANGED << srt, enc, seg, seg_next >>
    /\ EnvKeeps

\* The segmenter ends by itself (end of input, or an input it cannot open),
\* or dies of a SIGKILL sent earlier.
SegExit ==
    /\ Alive(seg)
    /\ seg' = IF seg = "killsent" THEN "exit1" ELSE "exit0"
    /\ hist' = Other(hist)
    /\ UNCHANGED << srt, files, enc, seg_next >>
    /\ EnvKeeps

\* An encoder ends by itself with exit code 0 or 1, or dies of a SIGKILL.
\* failedInWindow records a nonzero exit between the launch in start() and
\* start()'s poll of the process.
EncExit ==
    \E k \in DOMAIN enc :
        /\ Alive(enc[k])
        /\ \E code \in {"exit0", "exit1"} :
              /\ enc[k] = "killsent" => code = "exit1"
              /\ enc' = [enc EXCEPT ![k] = code]
              /\ hist' = [Other(hist) EXCEPT !.failedInWindow =
                            @ \/ (spc = "s_verify" /\ code = "exit1" /\ enc[k] = "running")]
        /\ UNCHANGED << srt, files, seg, seg_next >>
        /\ EnvKeeps

\* The cues the native whisper filter has written after its n-th write.
WhisperCues(n) == [k \in 1 .. n |-> MakeCue(k, k - 1, "hello")]

\* The encoder's whisper filter rewrites the subtitle file with one more cue.
EncWriteSrt ==
    /\ use_ffmpeg_whisper
    /\ \E k \in DOMAIN enc : enc[k] = "running"
    /\ LET n == IF srt.exists /\ srt.cues # << Placeholder >> THEN Len(srt.cues) ELSE 0
       IN /\ n < NumChunks
          /\ srt' = SrtFile(WhisperCues(n + 1))
    /\ hist' = Other(hist)
    /\ UNCHANGED << files, enc, seg, seg_next >>
    /\ EnvKeeps

Environment ==
    \/ SegCreate
    \/ SegFill
    \/ SegExit
    \/ EncExit
    \/ EncWriteSrt

\* ------------------------------------------------- routes and stop/cleanup
RouteKeeps ==
    UNCHANGED << error, use_ffmpeg_whisper, new_subtitles, server_vars, lang_vars, ext_vars, all_subtitles,
                 subtitle_index, chunk_counter, chunk_dir, files, seg_next,
                 player, spc, wpc, wi, wbase, wtext, processed_chunks, mpc,
                 calls, okChunks >>

\* What of the session a caller of cleanup() can observe afterwards.
SessionView ==
    [status |-> status, error |-> error, running |-> running, stt |-> stt,
     video |-> ffmpeg_video_process, audio |-> ffmpeg_audio_process,
     cues |-> all_subtitles, srt |-> srt, hls_dir |-> hls_dir,
     enc |-> enc, seg |-> seg]

\* session.all_subtitles[-10:]
LastCues(cues) ==
    IF Len(cues) <= RecentCues THEN cues
    ELSE SubSeq(cues, Len(cues) - RecentCues + 1, Len(cues))

\* get_status reads the session and changes nothing: its answer in the
\* current state.  "if session_id not in sessions" answers not found.
GetStatusResponse ==
    IF sessions
    THEN [found |-> TRUE, status |-> status, error |-> error,
          count |-> Len(all_subtitles), recent |-> LastCues(all_subtitles)]
    ELSE [found |-> FALSE, status |-> "none", error |-> "Sessione non trovata",
          count |-> 0, recent |-> << >>]

\* stop_session: return jsonify({'status': 'stopped'})
StopResponse == "stopped"

\* stop(): self.running = False
StopRunningFlag == FALSE

\* stop(): if self.ffmpeg_video_process: <terminate it>
\*         finally: self.ffmpeg_video_process = None
StopVideo ==
    /\ enc' = IF ffmpeg_video_process = 0 THEN enc
              ELSE [enc EXCEPT ![ffmpeg_video_process] = Terminated(@)]
    /\ ffmpeg_video_process' = 0

\* stop(): if self.ffmpeg_audio_process: <terminate it>
\*         finally: self.ffmpeg_audio_process = None
StopAudio ==
    /\ seg' = IF ffmpeg_audio_process = 0 THEN seg ELSE Terminated(seg)
    /\ ffmpeg_audio_process' = 0

\* A stop() that records the stop in the status field.
StopStatusStopped == "stopped"

\* stop() has no assignment to self.status: the field keeps its value.
StopStatus == status

\* VideoTranscriptionSession.stop()
Stop ==
    /\ running' = StopRunningFlag
    /\ status' = StopStatus
    /\ StopVideo
    /\ StopAudio

\* A cleanup() that leaves the subtitle file where it is.
CleanupSrtKeepsFile == srt' = srt

\* cleanup(): if os.path.exists(self.srt_path): os.unlink(self.srt_path)
CleanupSrt == srt' = NoSrtFile

\* cleanup(): shutil.rmtree(self.hls_dir, ignore_errors=True)
\* (self.video_pipe_path is None with the HLS sink: nothing else to remove.)
CleanupHls == hls_dir' = FALSE

\* VideoTranscriptionSession.cleanup(): self.stop(), the files, then the
\* handles and self.stt are set to None.
Cleanup ==
    /\ Stop
    /\ CleanupSrt
    /\ CleanupHls
    /\ stt' = FALSE

\* stop_session: the session is found, session.stop(), 'stopped' is answered.
StopSession ==
    /\ sessions
    /\ ops < MaxOps
    /\ ops' = ops + 1
    /\ Stop
    /\ hist' = [hist EXCEPT !.stopDone = TRUE,
                            !.stopRunning = @ \/ (status = "running"),
                            !.stopMid = @ \/ (wpc = "w_in_call"),
                            !.justCleaned = FALSE]
    /\ UNCHANGED << stt, srt, hls_dir, late, sessions >>
    /\ RouteKeeps

\* cleanup_session: the session is found, session.cleanup(), and
\* "del sessions[session_id]".  Requests are served by threads of their own
\* (app.run(threaded=True)): another request may have found the session in
\* the registry before the entry was deleted, and is served afterwards.
CleanupSession ==
    /\ sessions
    /\ ops < MaxOps
    /\ Cleanup
    /\ sessions' = FALSE
    /\ \/ late' = "none" /\ ops' = ops + 1
       \/ /\ ops + 1 < MaxOps
          /\ late' \in {"stop", "cleanup"}
          /\ ops' = ops + 2
    /\ hist' = [hist EXCEPT !.stopDone = TRUE,
                            !.stopMid = @ \/ (wpc = "w_in_call"),
                            !.cleanups = @ + 1,
                            !.cleanedAfterFail = @ \/ (hist.startReturn = "False"),
                            !.justCleaned = TRUE]
    /\ RouteKeeps

\* The request that found the session before it was deleted calls stop().
LateStop ==
    /\ late = "stop"
    /\ late' = "none"
    /\ Stop
    /\ hist' = [hist EXCEPT !.stopRunning = @ \/ (status = "running"),
                            !.stopMid = @ \/ (wpc = "w_in_call"),
                            !.justCleaned = FALSE]
    /\ UNCHANGED << stt, srt, hls_dir, sessions, ops >>
    /\ RouteKeeps

\* The request that found the session before it was deleted calls cleanup();
\* "if session_id in sessions" finds nothing left to delete.
LateCleanup ==
    /\ late = "cleanup"
    /\ late' = "none"
    /\ Cleanup
    /\ hist' = [hist EXCEPT !.stopMid = @ \/ (wpc = "w_in_call"),
                            !.cleanups = @ + 1,
                            !.cleanedAfterFail = @ \/ (hist.startReturn = "False"),
                            !.justCleaned = TRUE]
    /\ UNCHANGED << sessions, ops >>
    /\ RouteKeeps

Routes ==
    \/ StopSession
    \/ CleanupSession
    \/ LateStop
    \/ LateCleanup

\* ------------------------------------------------------------------- Spec
Next ==
    \/ StartThread
    \/ Worker
    \/ MonitorPoll
    \/ Environment
    \/ Routes

Spec == Init /\ [][Next]_vars

\* ------------------------- stop() statement by statement (web_app.py 540-616)
\* stop() holds no lock: the start() thread, the worker and the child
\* processes take steps between its statements.
MaxStops == 2

StopKeeps ==
    UNCHANGED << status, error, use_ffmpeg_whisper, new_subtitles, server_vars,
                 lang_vars, simple_vars, loops, stt, all_subtitles,
                 subtitle_index, chunk_counter,
                 srt, hls_dir, chunk_dir, files, seg_next, player, spc, wpc,
                 wi, wbase, wtext, processed_chunks, mpc, late, sessions, ops,
                 calls, okChunks >>

\* A stop() whose try blocks let the exception through.
StopCatchNone(pc) == "p_raised"

\* except Exception as e: print(...); if poll() is None: kill()
StopCatch(pc) == IF pc = "p_video" THEN "p_video_exc" ELSE "p_audio_exc"

\* self.running = False
StopEnter ==
    /\ sessions
    /\ stopreq.pc \in {"p_idle", "p_done"}
    /\ stopreq.n < MaxStops
    /\ running' = StopRunningFlag
    /\ stopreq' = [stopreq EXCEPT !.pc = "p_video"]
    /\ hist' = [hist EXCEPT !.stopDone = TRUE, !.justCleaned = FALSE]
    /\ UNCHANGED << ffmpeg_video_process, ffmpeg_audio_process, enc, seg >>
    /\ StopKeeps

\* if self.ffmpeg_video_process: try: <close the pipes, terminate, wait>
\* finally: self.ffmpeg_video_process = None.  A call inside the try may
\* raise.
StopVideoStep ==
    /\ stopreq.pc = "p_video"
    /\ \/ /\ StopVideo
          /\ stopreq' = [stopreq EXCEPT !.pc = "p_audio"]
       \/ /\ ffmpeg_video_process # 0
          /\ stopreq' = [stopreq EXCEPT !.pc = StopCatch("p_video")]
          /\ UNCHANGED << ffmpeg_video_process, enc >>
    /\ hist' = Other(hist)
    /\ UNCHANGED << running, ffmpeg_audio_process, seg >>
    /\ StopKeeps

\* Popen.kill() without a wait()
Killed(p) == IF Alive(p) THEN "killsent" ELSE p

\* except Exception: if self.ffmpeg_video_process.poll() is None: kill()
\* finally: self.ffmpeg_video_process = None
StopVideoHandler ==
    /\ stopreq.pc = "p_video_exc"
    /\ enc' = IF ffmpeg_video_process = 0 THEN enc
              ELSE [enc EXCEPT ![ffmpeg_video_process] = Killed(Polled(@))]
    /\ ffmpeg_video_process' = 0
    /\ stopreq' = [stopreq EXCEPT !.pc = "p_audio"]
    /\ hist' = Other(hist)
    /\ UNCHANGED << running, ffmpeg_audio_process, seg >>
    /\ StopKeeps

\* if self.ffmpeg_audio_process: try: <close the pipes, terminate, wait>
\* finally: self.ffmpeg_audio_process = None; stop() returns.
StopAudioStep ==
    /\ stopreq.pc = "p_audio"
    /\ \/ /\ StopAudio
          /\ stopreq' = [pc |-> "p_done", n |-> stopreq.n + 1]
       \/ /\ ffmpeg_audio_process # 0
          /\ stopreq' = [stopreq EXCEPT !.pc = StopCatch("p_audio")]
          /\ UNCHANGED << ffmpeg_audio_process, seg >>
    /\ hist' = Other(hist)
    /\ UNCHANGED << running, ffmpeg_video_process, enc >>
    /\ StopKeeps

\* except Exception: if self.ffmpeg_audio_process.poll() is None: kill()
\* finally: self.ffmpeg_audio_process = None; stop() returns.
StopAudioHandler ==
    /\ stopreq.pc = "p_audio_exc"
    /\ seg' = IF ffmpeg_audio_process = 0 THEN seg ELSE Killed(Polled(seg))
    /\ ffmpeg_audio_process' = 0
    /\ stopreq' = [pc |-> "p_done", n |-> stopreq.n + 1]
    /\ hist' = Other(hist)
    /\ UNCHANGED << running, ffmpeg_video_process, enc >>
    /\ StopKeeps

StopCall ==
    \/ StopEnter
    \/ StopVideoStep
    \/ StopVideoHandler
    \/ StopAudioStep
    \/ StopAudioHandler

NextStop ==
    \/ StartThread
    \/ Worker
    \/ MonitorPoll
    \/ Environment
    \/ StopCall

SpecStop == Init /\ [][NextStop]_vars

\* ----------------------- the CLI loop (launch_vlc_with_subtitles, 505-656)
\* The state when the while loop is reached: the model is loaded, the
\* subtitle file holds the placeholder, the encoder and the player run, the
\* chunk directory exists and the segmenter has been started.
InitCLI ==
    /\ status = "none"
    /\ error = "none"
    /\ running = FALSE
    /\ use_ffmpeg_whisper = FALSE
    /\ new_subtitles = << >>
    /\ ServerAtRest
    /\ stt = TRUE
    /\ ffmpeg_video_process = 1
    /\ ffmpeg_audio_process = 1
    /\ all_subtitles = << >>
    /\ subtitle_index = 1
    /\ chunk_counter = 0
    /\ srt = SrtFile(<< Placeholder >>)
    /\ hls_dir = FALSE
    /\ chunk_dir = TRUE
    /\ files = [i \in 0 .. (CliChunks - 1) |-> "none"]
    /\ enc = << "running" >>
    /\ seg = "running"
    /\ seg_next = 0
    /\ player = "running"
    /\ spc = "none"
    /\ wpc = "c_while"
    /\ wi = 0
    /\ wbase = 0
    /\ wtext = ""
    /\ processed_chunks = {}
    /\ mpc = "none"
    /\ late = "none"
    /\ sessions = FALSE
    /\ ops = 0
    /\ calls = [i \in 0 .. (CliChunks - 1) |-> 0]
    /\ okChunks = << >>
    /\ hist = NoHist

\* Variables the CLI loop never writes.
CliFields ==
    UNCHANGED << status, error, running, use_ffmpeg_whisper, new_subtitles, server_vars, lang_vars, ext_vars, stt,
                 ffmpeg_audio_process, hls_dir, seg_next, spc, mpc, late,
                 sessions, ops >>

CliKeeps == CliFields /\ UNCHANGED hist

CliNextIndex(i) ==
    IF i + 1 < wbase + Lookahead /\ i + 1 < NumChunks
    THEN wpc' = "c_scan" /\ wi' = i + 1
    ELSE wpc' = "c_while" /\ wi' = i

\* while player_process.poll() is None or ffmpeg_process.poll() is None:
\*     for i in range(chunk_counter, chunk_counter + 10):
CliWhile ==
    /\ wpc = "c_while"
    /\ player' = Polled(player)
    /\ seg' = IF PollIsNone(player) THEN seg ELSE Polled(seg)
    /\ IF PollIsNone(player) \/ PollIsNone(seg)
       THEN /\ wpc' = "c_scan"
            /\ wbase' = chunk_counter
            /\ wi' = chunk_counter
       ELSE wpc' = "c_finally" /\ UNCHANGED << wi, wbase >>
    /\ UNCHANGED << ffmpeg_video_process, all_subtitles, subtitle_index,
                    chunk_counter, srt, chunk_dir, files, enc, wtext,
                    processed_chunks, calls, okChunks >>
    /\ CliKeeps

\* if os.path.exists(chunk_file) and chunk_file not in processed_chunks:
\*     processed_chunks.add(chunk_file)
CliScan ==
    /\ wpc = "c_scan"
    /\ IF FileAt(wi) # "none" /\ wi \notin processed_chunks
       THEN /\ processed_chunks' = processed_chunks \cup {wi}
            /\ wpc' = "c_settle"
            /\ wi' = wi
       ELSE /\ processed_chunks' = processed_chunks
            /\ CliNextIndex(wi)
    /\ UNCHANGED << ffmpeg_video_process, all_subtitles, subtitle_index,
                    chunk_counter, srt, chunk_dir, files, enc, seg, player,
                    wbase, wtext, calls, okChunks >>
    /\ CliKeeps

\* time.sleep(0.5); if os.path.getsize(chunk_file) == 0: continue
CliSettle ==
    /\ wpc = "c_settle"
    /\ IF files[wi] = "empty"
       THEN CliNextIndex(wi)
       ELSE wpc' = "c_transcribe" /\ wi' = wi
    /\ UNCHANGED << ffmpeg_video_process, all_subtitles, subtitle_index,
                    chunk_counter, srt, chunk_dir, files, enc, seg, player,
                    wbase, wtext, processed_chunks, calls, okChunks >>
    /\ CliKeeps

\* result = stt.model.transcribe(chunk_file, language=language, ...)
\* text = result["text"].strip(), or the recognizer raises.
CliTranscribe ==
    /\ wpc = "c_transcribe"
    /\ calls' = [calls EXCEPT ![wi] = @ + 1]
    /\ \/ \E raw \in RawTexts :
            /\ wtext' = Strip(raw)
            /\ IF Strip(raw) # ""
               THEN wpc' = "c_append" /\ okChunks' = Append(okChunks, wi)
               ELSE wpc' = "c_unlink" /\ okChunks' = okChunks
       \/ /\ wpc' = "c_except"
          /\ UNCHANGED << wtext, okChunks >>
    /\ UNCHANGED << ffmpeg_video_process, all_subtitles, subtitle_index,
                    chunk_counter, srt, chunk_dir, files, enc, seg, player,
                    wi, wbase, processed_chunks >>
    /\ CliKeeps

\* A loop that restarts the encoder for every cue.
RestartAlways == TRUE

\* if subtitle_index % 3 == 0
RestartDue == subtitle_index % RestartEvery = 0

\* all_subtitles.append(subtitle); the subtitle file is rewritten; then the
\* restart test.
CliAppend ==
    /\ wpc = "c_append"
    /\ all_subtitles' = Append(all_subtitles, MakeCue(subtitle_index, wi, wtext))
    /\ srt' = SrtFile(all_subtitles')
    /\ wpc' = IF RestartDue THEN "c_terminate" ELSE "c_index"
    /\ UNCHANGED << ffmpeg_video_process, subtitle_index, chunk_counter,
                    chunk_dir, files, enc, seg, player, wi, wbase, wtext,
                    processed_chunks, calls, okChunks >>
    /\ CliKeeps

\* ffmpeg_video_process.terminate(); ffmpeg_video_process.wait(timeout=2):
\* the encoder has exited and is reaped.
EndedInTime(p) == "reaped"

\* wait(timeout=2) raises TimeoutExpired:
\* except: ffmpeg_video_process.kill() -- and no wait() after it.
KilledNotAwaited(p) == IF p = "running" THEN "killsent" ELSE p

\* try: terminate(); wait(timeout=2)  except: try: kill()  except: pass
CliTerminate ==
    /\ wpc = "c_terminate"
    /\ \/ enc' = [enc EXCEPT ![ffmpeg_video_process] = EndedInTime(@)]
       \/ /\ enc[ffmpeg_video_process] = "running"
          /\ enc' = [enc EXCEPT ![ffmpeg_video_process] = KilledNotAwaited(@)]
    /\ wpc' = "c_relaunch"
    /\ hist' = [hist EXCEPT !.restarts = @ + 1]
    /\ UNCHANGED << ffmpeg_video_process, all_subtitles, subtitle_index,
                    chunk_counter, srt, chunk_dir, files, seg, player, wi,
                    wbase, wtext, processed_chunks, calls, okChunks >>
    /\ CliFields

\* ffmpeg_video_process = restart_ffmpeg_video_process(input_source, srt_path,
\*     video_pipe_path, use_http=False); a Popen that raises is caught and the
\* old handle stays.
CliRelaunch ==
    /\ wpc = "c_relaunch"
    /\ \/ /\ enc' = Append(enc, "running")
          /\ ffmpeg_video_process' = Len(enc) + 1
       \/ UNCHANGED << enc, ffmpeg_video_process >>
    /\ wpc' = "c_index"
    /\ UNCHANGED << all_subtitles, subtitle_index, chunk_counter, srt,
                    chunk_dir, files, seg, player, wi, wbase, wtext,
                    processed_chunks, calls, okChunks >>
    /\ CliKeeps

\* subtitle_index += 1
CliIndex ==
    /\ wpc = "c_index"
    /\ subtitle_index' = subtitle_index + 1
    /\ wpc' = "c_unlink"
    /\ UNCHANGED << ffmpeg_video_process, all_subtitles, chunk_counter, srt,
                    chunk_dir, files, enc, seg, player, wi, wbase, wtext,
                    processed_chunks, calls, okChunks >>
    /\ CliKeeps

\* os.unlink(chunk_file); chunk_counter = i + 1
CliUnlink ==
    /\ wpc = "c_unlink"
    /\ files' = Unlink(files, wi)
    /\ chunk_counter' = wi + 1
    /\ CliNextIndex(wi)
    /\ UNCHANGED << ffmpeg_video_process, all_subtitles, subtitle_index, srt,
                    chunk_dir, enc, seg, player, wbase, wtext,
                    processed_chunks, calls, okChunks >>
    /\ CliKeeps

\* except Exception: if os.path.exists(chunk_file): os.unlink(chunk_file)
CliExcept ==
    /\ wpc = "c_except"
    /\ files' = Unlink(files, wi)
    /\ CliNextIndex(wi)
    /\ UNCHANGED << ffmpeg_video_process, all_subtitles, subtitle_index,
                    chunk_counter, srt, chunk_dir, enc, seg, player, wbase,
                    wtext, processed_chunks, calls, okChunks >>
    /\ CliKeeps

\* try: p.terminate(); p.wait(timeout=5)  except: try: p.kill()
FinallyStopped(p) ==
    IF p = "running" THEN {"reaped", "killsent"}
    ELSE IF p = "killsent" THEN {"reaped", "killsent"}
    ELSE {"reaped"}

\* finally: the player, the encoder and the segmenter are terminated, the
\* chunk files and the chunk directory removed (os.rmdir fails, except: pass,
\* when a segmenter that is still alive has written another file).
CliFinally ==
    /\ wpc = "c_finally"
    /\ player' \in FinallyStopped(player)
    /\ \E e \in FinallyStopped(enc[ffmpeg_video_process]) :
          enc' = [enc EXCEPT ![ffmpeg_video_process] = e]
    /\ seg' \in FinallyStopped(seg)
    /\ files' = [i \in DOMAIN files |-> "none"]
    /\ chunk_dir' \in (IF Alive(seg') THEN BOOLEAN ELSE {FALSE})
    /\ wpc' = "c_done"
    /\ UNCHANGED << ffmpeg_video_process, all_subtitles, subtitle_index,
                    chunk_counter, srt, wi, wbase, wtext, processed_chunks,
                    calls, okChunks >>
    /\ CliKeeps

\* The player ends (the user closes it, or -autoexit at the end of the stream).
PlayerExit ==
    /\ player = "running"
    /\ player' = "exit0"
    /\ UNCHANGED << status, error, running, use_ffmpeg_whisper, new_subtitles, server_vars, lang_vars, ext_vars, stt,
                    ffmpeg_video_process, ffmpeg_audio_process, all_subtitles,
                    subtitle_index, chunk_counter, srt, hls_dir, chunk_dir,
                    files, enc, seg, seg_next, spc, wpc, wi, wbase, wtext,
                    processed_chunks, mpc, late, sessions, ops, calls,
                    okChunks, hist >>

CliLoop ==
    \/ CliWhile
    \/ CliScan
    \/ CliSettle
    \/ CliTranscribe
    \/ CliAppend
    \/ CliTerminate
    \/ CliRelaunch
    \/ CliIndex
    \/ CliUnlink
    \/ CliExcept
    \/ CliFinally

NextCLI ==
    \/ CliLoop
    \/ SegCreate
    \/ SegFill
    \/ SegExit
    \/ EncExit
    \/ PlayerExit

SpecCLI == InitCLI /\ [][NextCLI]_vars

\* -------- launch_vlc_with_subtitles from its first child on (403-661), with
\* -------- the ways out of the loop other than its condition
\* The state before restart_ffmpeg_video_process is called at line 406: the
\* model is loaded and the subtitle file holds the placeholder.
InitCliSetup ==
    /\ status = "none"
    /\ error = "none"
    /\ running = FALSE
    /\ use_ffmpeg_whisper = FALSE
    /\ new_subtitles = << >>
    /\ ServerAtRest
    /\ stt = TRUE
    /\ ffmpeg_video_process = 0
    /\ ffmpeg_audio_process = 0
    /\ all_subtitles = << >>
    /\ subtitle_index = 1
    /\ chunk_counter = 0
    /\ srt = SrtFile(<< Placeholder >>)
    /\ hls_dir = FALSE
    /\ chunk_dir = FALSE
    /\ files = [i \in 0 .. (CliChunks - 1) |-> "none"]
    /\ enc = << >>
    /\ seg = "none"
    /\ seg_next = 0
    /\ player = "none"
    /\ spc = "none"
    /\ wpc = "c_setup"
    /\ wi = 0
    /\ wbase = 0
    /\ wtext = ""
    /\ processed_chunks = {}
    /\ mpc = "none"
    /\ late = "none"
    /\ sessions = FALSE
    /\ ops = 0
    /\ calls = [i \in 0 .. (CliChunks - 1) |-> 0]
    /\ okChunks = << >>
    /\ hist = NoHist

SetupKeeps ==
    UNCHANGED << status, error, running, use_ffmpeg_whisper, new_subtitles,
                 server_vars, lang_vars, ext_vars, stt, all_subtitles,
                 subtitle_index, chunk_counter, srt, hls_dir, files, seg_next,
                 spc, wi, wbase, wtext, processed_chunks, mpc, late, sessions,
                 ops, calls, okChunks, hist >>

\* ffmpeg_video_process = restart_ffmpeg_video_process(...)   (406-411)
CliSetupEncoder ==
    /\ wpc = "c_setup"
    /\ enc' = << "running" >>
    /\ ffmpeg_video_process' = 1
    /\ wpc' = "c_player"
    /\ UNCHANGED << ffmpeg_audio_process, chunk_dir, seg, player >>
    /\ SetupKeeps

\* player_process = subprocess.Popen(player_cmd, ...); time.sleep(3)
\* A Popen that raises, or a player that has exited by the time of the
\* poll(), ends in sys.exit(1)   (436-472).
CliSetupPlayer ==
    /\ wpc = "c_player"
    /\ \/ player' = "running" /\ wpc' = "c_segmenter"
       \/ player' \in {"none", "reaped"} /\ wpc' = "c_exit"
    /\ UNCHANGED << ffmpeg_video_process, ffmpeg_audio_process, chunk_dir,
                    enc, seg >>
    /\ SetupKeeps

\* chunk_dir = tempfile.mkdtemp(...); ffmpeg_process = subprocess.Popen(...)
\* A Popen that raises leaves the function before the try of line 507.
CliSetupSegmenter ==
    /\ wpc = "c_segmenter"
    /\ chunk_dir' = TRUE
    /\ \/ /\ seg' = "running"
          /\ ffmpeg_audio_process' = 1
          /\ wpc' = "c_while"
       \/ /\ wpc' = "c_exit"
          /\ UNCHANGED << seg, ffmpeg_audio_process >>
    /\ UNCHANGED << ffmpeg_video_process, enc, player >>
    /\ SetupKeeps

\* KeyboardInterrupt, or an exception no inner try catches, inside the try of
\* line 507: control goes to the finally block.
CliInterrupt ==
    /\ wpc \in {"c_while", "c_scan", "c_settle", "c_transcribe", "c_append",
                "c_terminate", "c_relaunch", "c_index", "c_unlink",
                "c_except"}
    /\ wpc' = "c_finally"
    /\ UNCHANGED << ffmpeg_video_process, ffmpeg_audio_process, chunk_dir, enc,
                    seg, player >>
    /\ SetupKeeps

NextCliExit ==
    \/ CliSetupEncoder
    \/ CliSetupPlayer
    \/ CliSetupSegmenter
    \/ CliInterrupt
    \/ NextCLI

SpecCliExit == InitCliSetup /\ [][NextCliExit]_vars

\* ------------------- a long run of the worker (_process_audio, 351-455)
\* The session of Spec once start() has returned in Python-Whisper mode (the
\* encoder launch has raised, so the handle is None and status is error) and
\* the worker has started the segmenter, with a longer stream ahead: nobody
\* calls stop() or cleanup().
InitScan ==
    /\ status = "error"
    /\ error = "Errore avvio sessione"
    /\ running = TRUE
    /\ use_ffmpeg_whisper = FALSE
    /\ new_subtitles = << >>
    /\ ServerAtRest
    /\ stt = TRUE
    /\ ffmpeg_video_process = 0
    /\ ffmpeg_audio_process = 1
    /\ all_subtitles = << >>
    /\ subtitle_index = 1
    /\ chunk_counter = 0
    /\ srt = SrtFile(<< Placeholder >>)
    /\ hls_dir = TRUE
    /\ chunk_dir = TRUE
    /\ files = [i \in 0 .. (ScanChunks - 1) |-> "none"]
    /\ enc = << >>
    /\ seg = "running"
    /\ seg_next = 0
    /\ player = "none"
    /\ spc = "s_done"
    /\ wpc = "w_while"
    /\ wi = 0
    /\ wbase = 0
    /\ wtext = ""
    /\ processed_chunks = {}
    /\ mpc = "m_idle"
    /\ late = "none"
    /\ sessions = TRUE
    /\ ops = 0
    /\ calls = [i \in 0 .. (ScanChunks - 1) |-> 0]
    /\ okChunks = << >>
    /\ hist = [NoHist EXCEPT !.claimed = [i \in 0 .. (ScanChunks - 1) |-> 0]]

\* The chunk files that have had audio data so far: those with data now and
\* those the worker took with a size other than zero.
DataMade ==
    {i \in DOMAIN files :
        files[i] = "data" \/ (i \in processed_chunks /\ i \notin hist.zeroSize)}

\* The stream of the long run: at most ScanData of its chunks get data.
ScanStream == Cardinality(DataMade) <= ScanData

\* The segmenter of the long run: it stays alive for the whole run, and its
\* writes fall into the worker's time.sleep(0.5) between two polls.
ScanSegmenter ==
    /\ wpc = "w_while"
    /\ \/ SegCreate
       \/ SegFill
    /\ ScanStream'

\* The worker's loop (351-455); with the segmenter alive and running set it
\* is never left.
ScanWorker ==
    \/ WorkerWhile
    \/ WorkerCond
    \/ WorkerScan
    \/ WorkerSettle
    \/ WorkerTranscribe
    \/ WorkerReturn
    \/ WorkerAppend
    \/ WorkerOpenSrt
    \/ WorkerFlush
    \/ WorkerUnlink
    \/ WorkerExcept

NextScan ==
    \/ ScanWorker
    \/ ScanSegmenter

\* The worker is a thread of its own and keeps being scheduled.
SpecScan == InitScan /\ [][NextScan]_vars /\ WF_vars(ScanWorker)

\* --------------- an undisturbed run of the worker (_process_audio, 351-455)
\* As InitScan, with TextChunks chunk files ahead.
InitTexts ==
    /\ status = "error"
    /\ error = "Errore avvio sessione"
    /\ running = TRUE
    /\ use_ffmpeg_whisper = FALSE
    /\ new_subtitles = << >>
    /\ ServerAtRest
    /\ stt = TRUE
    /\ ffmpeg_video_process = 0
    /\ ffmpeg_audio_process = 1
    /\ all_subtitles = << >>
    /\ subtitle_index = 1
    /\ chunk_counter = 0
    /\ srt = SrtFile(<< Placeholder >>)
    /\ hls_dir = TRUE
    /\ chunk_dir = TRUE
    /\ files = [i \in 0 .. (TextChunks - 1) |-> "none"]
    /\ enc = << >>
    /\ seg = "running"
    /\ seg_next = 0
    /\ player = "none"
    /\ spc = "s_done"
    /\ wpc = "w_while"
    /\ wi = 0
    /\ wbase = 0
    /\ wtext = ""
    /\ processed_chunks = {}
    /\ mpc = "m_idle"
    /\ late = "none"
    /\ sessions = TRUE
    /\ ops = 0
    /\ calls = [i \in 0 .. (TextChunks - 1) |-> 0]
    /\ okChunks = << >>
    /\ hist = [NoHist EXCEPT !.claimed = [i \in 0 .. (TextChunks - 1) |-> 0]]

NextTexts ==
    \/ ScanWorker
    \/ SegCreate
    \/ SegFill

SpecTexts == InitTexts /\ [][NextTexts]_vars

\* ------------- the SRT text: flush format (web_app.py 390-394) and the
\* ------------- session's SRT parser (_monitor_whisper_srt, 499-519)
\* A written file is a sequence of lines.  A cue's text is a sequence of
\* text lines; "5 12:b" stands for a line that begins with digits, white
\* space, two digits and a colon, "hello" for a line that does not.
TextLine(t) == [k |-> "text", t |-> t]

BlankLine == [k |-> "blank"]

SrtTexts ==
    { << TextLine("hello") >>,
      << TextLine("hello"), TextLine("hello") >>,
      << TextLine("hello"), TextLine("5 12:b") >> }

\* chunk_duration is any positive integer the client posts.
ChunkDurations == {10, 180000}

\* format_srt_time: the fields of HH:MM:SS,mmm; seconds are whole numbers
\* here, so the milliseconds are 0.
format_srt_time(seconds) ==
    [h |-> seconds \div 3600, m |-> (seconds % 3600) \div 60,
     s |-> seconds % 60, ms |-> 0]

\* {hours:02d} pads to two digits and never truncates.
HourDigits(h) == IF h < 100 THEN 2 ELSE 3

\* The three writes of the flush loop for one cue.
CueLines(sub) ==
    << [k |-> "index", n |-> sub.index],
       [k |-> "time", a |-> format_srt_time(sub.start),
        b |-> format_srt_time(sub.end)] >>
    \o sub.text \o << BlankLine >>

RECURSIVE FlushFormat(_)
FlushFormat(subs) ==
    IF subs = << >> THEN << >>
    ELSE CueLines(Head(subs)) \o FlushFormat(Tail(subs))

\* (\d+)\s+(\d{2}):..,(\d{3})\s+-->\s+(\d{2}):..,(\d{3})\s+(.+?) at line p:
\* an index line, a time line whose two hour fields have two digits, and at
\* least one more line for the text.
CueStartsAt(doc, p) ==
    /\ p + 2 <= Len(doc)
    /\ doc[p].k = "index"
    /\ doc[p + 1].k = "time"
    /\ HourDigits(doc[p + 1].a.h) = 2
    /\ HourDigits(doc[p + 1].b.h) = 2

\* The lookahead (?=\n\d+\s+\d{2}:) succeeds in front of line r.
Lookahead_srt(doc, r) ==
    \/ doc[r].k = "text" /\ doc[r].t = "5 12:b"
    \/ /\ doc[r].k = "index"
       /\ r + 1 <= Len(doc)
       /\ doc[r + 1].k = "time"
       /\ HourDigits(doc[r + 1].a.h) = 2

\* (.+?) is lazy: the text ends in front of the first line the lookahead
\* accepts, or at the end of the file.
TextEnd(doc, q) ==
    LET stops == {r \in (q + 1) .. Len(doc) : Lookahead_srt(doc, r)}
    IN  IF stops = {} THEN Len(doc) + 1
        ELSE CHOOSE r \in stops : \A r2 \in stops : r <= r2

\* match[9].strip(): the blank lines that end the text are dropped.
RECURSIVE StripLines(_)
StripLines(ls) ==
    IF ls # << >> /\ ls[Len(ls)] = BlankLine
    THEN StripLines(SubSeq(ls, 1, Len(ls) - 1))
    ELSE ls

ParseTime(t) == t.h * 3600 + t.m * 60 + t.s

\* re.findall and the loop that builds new_subtitles.
RECURSIVE ParseSrtText(_, _)
ParseSrtText(doc, p) ==
    IF p > Len(doc) THEN << >>
    ELSE IF CueStartsAt(doc, p)
         THEN LET r == TextEnd(doc, p + 2)
              IN  << [index |-> doc[p].n,
                      start |-> ParseTime(doc[p + 1].a),
                      end   |-> ParseTime(doc[p + 1].b),
                      text  |-> StripLines(SubSeq(doc, p + 2, r - 1))] >>
                  \o ParseSrtText(doc, r)
         ELSE ParseSrtText(doc, p + 1)

\* The cue lists the worker can hold: cue k has index k, the chunks are in
\* ascending order, and the times are those of the chunk (380-385).
StoredLists ==
    { subs \in UNION { [1 .. n -> [index : 1 .. SrtCues,
                                   chunk : 0 .. (SrtChunks - 1),
                                   d : ChunkDurations,
                                   text : SrtTexts]] : n \in 1 .. SrtCues } :
        /\ \A k \in DOMAIN subs : subs[k].index = k /\ subs[k].d = subs[1].d
        /\ \A k \in 1 .. (Len(subs) - 1) : subs[k].chunk < subs[k + 1].chunk }

StoredCue(c) ==
    [index |-> c.index, start |-> c.chunk * c.d, end |-> (c.chunk + 1) * c.d,
     text |-> c.text]

InitSrt ==
    /\ status = "running"
    /\ error = "none"
    /\ running = TRUE
    /\ use_ffmpeg_whisper = FALSE
    /\ new_subtitles = << >>
    /\ ServerAtRest
    /\ stt = TRUE
    /\ ffmpeg_video_process = 0
    /\ ffmpeg_audio_process = 1
    /\ \E subs \in StoredLists :
           all_subtitles = [k \in DOMAIN subs |-> StoredCue(subs[k])]
    /\ subtitle_index = Len(all_subtitles)
    /\ chunk_counter = 0
    /\ srt = [exists |-> TRUE, cues |-> << >>, w |-> FALSE, lines |-> << >>]
    /\ hls_dir = TRUE
    /\ chunk_dir = TRUE
    /\ files = [i \in Chunks |-> "none"]
    /\ enc = << >>
    /\ seg = "running"
    /\ seg_next = 0
    /\ player = "none"
    /\ spc = "s_done"
    /\ wpc = "w_flush"
    /\ wi = 0
    /\ wbase = 0
    /\ wtext = ""
    /\ processed_chunks = {}
    /\ mpc = "m_idle"
    /\ late = "none"
    /\ sessions = TRUE
    /\ ops = 0
    /\ calls = [i \in Chunks |-> 0]
    /\ okChunks = << >>
    /\ hist = NoHist

SrtKeeps ==
    UNCHANGED << status, error, running, use_ffmpeg_whisper, server_vars, lang_vars, ext_vars, stt,
                 ffmpeg_video_process, ffmpeg_audio_process, all_subtitles,
                 subtitle_index, chunk_counter, hls_dir, chunk_dir, files,
                 enc, seg, seg_next, player, spc, wi, wbase, wtext,
                 processed_chunks, late, sessions, ops, calls, okChunks,
                 hist >>

\* 390-394: the flush, with the text it puts in the file.
FlushText ==
    /\ wpc = "w_flush"
    /\ srt' = [srt EXCEPT !.lines = FlushFormat(all_subtitles)]
    /\ wpc' = "w_unlink"
    /\ UNCHANGED << new_subtitles, mpc >>
    /\ SrtKeeps

\* 496-519: the parser reads the file and builds new_subtitles.
ParseText ==
    /\ wpc = "w_unlink"
    /\ mpc = "m_idle"
    /\ new_subtitles' = ParseSrtText(srt.lines, 1)
    /\ mpc' = "m_parsed"
    /\ UNCHANGED << srt, wpc >>
    /\ SrtKeeps

NextSrt ==
    \/ FlushText
    \/ ParseText

SpecSrt == InitSrt /\ [][NextSrt]_vars

\* ------------- SimpleVideoSession: _monitor_srt and _translate_subtitles
\* ------------- (web_app_simple.py 345-484)
\* The whisper filter of the encoder writes at most SimpleCues cues.
SimpleCues == 3

\* A translation request (translate_to is set and is not 'none').
translate_to == TRUE

\* The text the translator returns.
Translated(text) == << "it", text >>

\* os.path.getsize(self.srt_path)
SizeOf(f) == Len(f.cues)

InitSimple ==
    /\ status = "running"
    /\ error = "none"
    /\ running = TRUE
    /\ use_ffmpeg_whisper = TRUE
    /\ new_subtitles = << >>
    /\ ServerAtRest
    /\ stt = FALSE
    /\ ffmpeg_video_process = 1
    /\ ffmpeg_audio_process = 0
    /\ all_subtitles = << >>
    /\ subtitle_index = 1
    /\ chunk_counter = 0
    /\ srt = NoSrtFile
    /\ hls_dir = TRUE
    /\ chunk_dir = FALSE
    /\ files = [i \in Chunks |-> "none"]
    /\ enc = << "running" >>
    /\ seg = "none"
    /\ seg_next = 0
    /\ player = "none"
    /\ spc = "s_done"
    /\ wpc = "w_idle"
    /\ wi = 0
    /\ wbase = 0
    /\ wtext = ""
    /\ processed_chunks = {}
    /\ mpc = "m_idle"
    /\ late = "none"
    /\ sessions = TRUE
    /\ ops = 0
    /\ calls = [i \in Chunks |-> 0]
    /\ okChunks = << >>
    /\ hist = NoHist

SimpleKeeps ==
    UNCHANGED << status, error, use_ffmpeg_whisper, new_subtitles, server_vars,
                 lang_vars, stopreq, loops, stt, ffmpeg_video_process,
                 ffmpeg_audio_process, subtitle_index, chunk_counter, hls_dir,
                 chunk_dir, files, seg, seg_next, player, spc, wpc, wi, wbase,
                 wtext, processed_chunks, mpc, late, sessions, ops, calls,
                 okChunks, hist >>

\* The whisper filter writes one more cue to the subtitle file.
SimpleEncWrite ==
    /\ enc[1] = "running"
    /\ Len(srt.cues) < SimpleCues
    /\ srt' = SrtFile(WhisperCues(Len(srt.cues) + 1))
    /\ UNCHANGED << running, all_subtitles, translated_subtitles, simple, enc >>
    /\ SimpleKeeps

\* stop(): self.running = False; self.ffmpeg_process.terminate(); wait
SimpleStop ==
    /\ running
    /\ running' = FALSE
    /\ enc' = [enc EXCEPT ![1] = Terminated(@)]
    /\ UNCHANGED << srt, all_subtitles, translated_subtitles, simple >>
    /\ SimpleKeeps

\* while self.running: if os.path.exists(...): size = getsize(...);
\* if size != last_size: content = f.read(); matches = re.findall(...)
SimplePoll ==
    /\ simple.pc = "sm_loop"
    /\ IF ~running
       THEN simple' = [simple EXCEPT !.pc = "sm_done"]
       ELSE /\ srt.exists
            /\ SizeOf(srt) # simple.last_size
            /\ simple' = [simple EXCEPT !.pc = "sm_reset", !.size = SizeOf(srt),
                                        !.matches = ParseSrt(srt)]
    /\ UNCHANGED << running, srt, all_subtitles, translated_subtitles, enc >>
    /\ SimpleKeeps

\* self.all_subtitles = []
SimpleResetList == << >>

SimpleReset ==
    /\ simple.pc = "sm_reset"
    /\ all_subtitles' = SimpleResetList
    /\ simple' = [simple EXCEPT !.pc = "sm_append", !.k = 1]
    /\ UNCHANGED << running, srt, translated_subtitles, enc >>
    /\ SimpleKeeps

\* for m in matches: self.all_subtitles.append({...})
\* then: if self.all_subtitles: if self.translate_to ...: _translate_subtitles()
SimpleAppend ==
    /\ simple.pc = "sm_append"
    /\ IF simple.k <= Len(simple.matches)
       THEN /\ all_subtitles' = Append(all_subtitles, simple.matches[simple.k])
            /\ simple' = [simple EXCEPT !.k = @ + 1]
       ELSE /\ all_subtitles' = all_subtitles
            /\ simple' = [simple EXCEPT !.pc =
                             IF all_subtitles # << >> /\ translate_to
                             THEN "sm_translate" ELSE "sm_sized"]
    /\ UNCHANGED << running, srt, translated_subtitles, enc >>
    /\ SimpleKeeps

\* _translate_subtitles: the translator is imported (ImportError ends the
\* call); new_subtitles = self.all_subtitles[len(self.translated_subtitles):]
SimpleTranslateBegin ==
    /\ simple.pc = "sm_translate"
    /\ \/ simple' = [simple EXCEPT !.pc = "sm_sized"]
       \/ simple' = [simple EXCEPT
              !.matches = SubSeq(all_subtitles, Len(translated_subtitles) + 1,
                                 Len(all_subtitles)),
              !.k = 1,
              !.pc = IF Len(translated_subtitles) >= Len(all_subtitles)
                     THEN "sm_sized" ELSE "sm_each"]
    /\ UNCHANGED << running, srt, all_subtitles, translated_subtitles, enc >>
    /\ SimpleKeeps

\* for subtitle in new_subtitles: the translated cue is appended, or the
\* original one when the translator raises.
SimpleTranslateOne ==
    /\ simple.pc = "sm_each"
    /\ IF simple.k <= Len(simple.matches)
       THEN /\ \E ok \in BOOLEAN :
                 translated_subtitles' = Append(translated_subtitles,
                     IF ok THEN [simple.matches[simple.k] EXCEPT
                                     !.text = Translated(@)]
                     ELSE simple.matches[simple.k])
            /\ simple' = [simple EXCEPT !.k = @ + 1]
       ELSE /\ translated_subtitles' = translated_subtitles
            /\ simple' = [simple EXCEPT !.pc = "sm_sized"]
    /\ UNCHANGED << running, srt, all_subtitles, enc >>
    /\ SimpleKeeps

\* last_size = size; time.sleep(1)
SimpleSized ==
    /\ simple.pc = "sm_sized"
    /\ simple' = [simple EXCEPT !.pc = "sm_loop", !.last_size = simple.size]
    /\ UNCHANGED << running, srt, all_subtitles, translated_subtitles, enc >>
    /\ SimpleKeeps

SimpleMonitor ==
    \/ SimplePoll
    \/ SimpleReset
    \/ SimpleAppend
    \/ SimpleTranslateBegin
    \/ SimpleTranslateOne
    \/ SimpleSized

NextSimple ==
    \/ SimpleMonitor
    \/ SimpleEncWrite
    \/ SimpleStop

SpecSimple == InitSimple /\ [][NextSimple]_vars

\* ------------------- the server: start_transcription (773-818), the global
\* ------------------- registry (73-74) and several sessions side by side
\* Flask serves each request on a thread of its own (app.run(threaded=True),
\* 1097); the statements of a handler interleave with those of the others.
Requests == 1 .. MaxRequests

\* A session object that has not been constructed.
NoObj == [id |-> 0, status |-> "none", error |-> "none", running |-> FALSE,
          all_subtitles |-> << >>, ffmpeg_video_process |-> 0,
          ffmpeg_audio_process |-> 0]

\* VideoTranscriptionSession.__init__ (83-119), with srt_path = subs_<id>.srt
NewObj(id) == [NoObj EXCEPT !.id = id, !.status = "initializing"]

NoFile == [exists |-> FALSE, cues |-> << >>]

\* The request body has not been read.
NoSource == [scheme |-> "", rest |-> "unread"]

\* Values of video_url in the request body: blank, a scheme is_url does
\* not know with a path that does not exist, a URL, an existing file.
Sources ==
    {[scheme |-> "", rest |-> "  "],
     [scheme |-> "udp://", rest |-> "/no/such.mp4"],
     [scheme |-> "http://", rest |-> "host/v.m3u8"],
     [scheme |-> "", rest |-> "/tmp/v.mp4"]}

\* data.get('video_url', '').strip()
StripUrl(u) == IF u.rest = "  " THEN [u EXCEPT !.rest = ""] ELSE u

\* is_url: source.startswith(("http://", "https://", "rtsp://", "rtmp://", "mms://"))
is_url(u) == u.scheme \in {"http://", "https://", "rtsp://", "rtmp://", "mms://"}

\* os.path.exists(video_url)
PathExists(u) == u = [scheme |-> "", rest |-> "/tmp/v.mp4"]

\* A handler that starts a session for whatever it is given.
AcceptsAll(u) == TRUE

\* if not video_url: 400; if not is_url(...) and not os.path.exists(...): 400
Accepts(u) ==
    /\ u # [scheme |-> "", rest |-> ""]
    /\ is_url(u) \/ PathExists(u)

InitApp ==
    /\ status = "none"
    /\ error = "none"
    /\ running = FALSE
    /\ use_ffmpeg_whisper = FALSE
    /\ new_subtitles = << >>
    /\ language = "none"
    /\ lang_path = "none"
    /\ lang_passed = "pending"
    /\ session_counter = 0
    /\ reqs = [r \in Requests |-> [pc |-> "r_begin", seen |-> 0, id |-> 0,
                                    url |-> NoSource]]
    /\ registry = [n \in Requests |-> 0]
    /\ objs = [r \in Requests |-> NoObj]
    /\ srt_files = [n \in 0 .. MaxRequests |-> NoFile]
    /\ getreq = NoGetReq
    /\ ExtAtRest
    /\ stt = FALSE
    /\ ffmpeg_video_process = 0
    /\ ffmpeg_audio_process = 0
    /\ all_subtitles = << >>
    /\ subtitle_index = 1
    /\ chunk_counter = 0
    /\ srt = NoSrtFile
    /\ hls_dir = FALSE
    /\ chunk_dir = FALSE
    /\ files = [i \in Chunks |-> "none"]
    /\ enc = << >>
    /\ seg = "none"
    /\ seg_next = 0
    /\ player = "none"
    /\ spc = "s_done"
    /\ wpc = "w_idle"
    /\ wi = 0
    /\ wbase = 0
    /\ wtext = ""
    /\ processed_chunks = {}
    /\ mpc = "m_idle"
    /\ late = "none"
    /\ sessions = FALSE
    /\ ops = 0
    /\ calls = [i \in Chunks |-> 0]
    /\ okChunks = << >>
    /\ hist = NoHist

\* The single-session variables, which the server model leaves alone.
AppKeeps ==
    UNCHANGED << status, error, running, use_ffmpeg_whisper, new_subtitles,
                 getreq, lang_vars, ext_vars, stt, ffmpeg_video_process, ffmpeg_audio_process,
                 all_subtitles, subtitle_index, chunk_counter, srt, hls_dir,
                 chunk_dir, files, enc, seg, seg_next, player, spc, wpc, wi,
                 wbase, wtext, processed_chunks, mpc, late, sessions, ops,
                 calls, okChunks >>

Acts(r) == hist' = [hist EXCEPT !.actor = r]

\* if not video_url: return ... 400   (784-788)
ReqValidate(r) ==
    /\ reqs[r].pc = "r_begin"
    /\ \E ok \in BOOLEAN :
           reqs' = [reqs EXCEPT ![r].pc = IF ok THEN "r_load" ELSE "r_rejected"]
    /\ Acts(r)
    /\ UNCHANGED << session_counter, registry, objs, srt_files >>
    /\ AppKeeps

\* session_counter += 1: the global is loaded ...
ReqLoad(r) ==
    /\ reqs[r].pc = "r_load"
    /\ reqs' = [reqs EXCEPT ![r].pc = "r_store", ![r].seen = session_counter]
    /\ Acts(r)
    /\ UNCHANGED << session_counter, registry, objs, srt_files >>
    /\ AppKeeps

\* ... and the sum is stored (791).
ReqStore(r) ==
    /\ reqs[r].pc = "r_store"
    /\ session_counter' = reqs[r].seen + 1
    /\ reqs' = [reqs EXCEPT ![r].pc = "r_id"]
    /\ Acts(r)
    /\ UNCHANGED << registry, objs, srt_files >>
    /\ AppKeeps

\* session_id = f"session_{session_counter}": the global is read again (792).
ReqFormatId(r) ==
    /\ reqs[r].pc = "r_id"
    /\ reqs' = [reqs EXCEPT ![r].pc = "r_new", ![r].id = session_counter]
    /\ Acts(r)
    /\ UNCHANGED << session_counter, registry, objs, srt_files >>
    /\ AppKeeps

\* session = VideoTranscriptionSession(session_id=...) (794-800); __init__
\* ends with self._init_srt_file(), which opens srt_path with 'w'.
ReqNewSession(r) ==
    /\ reqs[r].pc = "r_new"
    /\ objs' = [objs EXCEPT ![r] = NewObj(reqs[r].id)]
    /\ srt_files' = [srt_files EXCEPT ![reqs[r].id] =
                         [exists |-> TRUE, cues |-> << Placeholder >>]]
    /\ reqs' = [reqs EXCEPT ![r].pc = "r_register"]
    /\ Acts(r)
    /\ UNCHANGED << session_counter, registry >>
    /\ AppKeeps

\* sessions[session_id] = session (802); the start thread is spawned (808).
ReqRegister(r) ==
    /\ reqs[r].pc = "r_register"
    /\ registry' = [registry EXCEPT ![reqs[r].id] = r]
    /\ reqs' = [reqs EXCEPT ![r].pc = "r_start"]
    /\ Acts(r)
    /\ UNCHANGED << session_counter, objs, srt_files >>
    /\ AppKeeps

\* session.start() on the thread of the request: running = True,
\* status = "running" (249-250); the worker is spawned.
AppStart(r) ==
    /\ reqs[r].pc = "r_start"
    /\ objs' = [objs EXCEPT ![r].running = TRUE, ![r].status = "running"]
    /\ reqs' = [reqs EXCEPT ![r].pc = "r_worker"]
    /\ Acts(r)
    /\ UNCHANGED << session_counter, registry, srt_files >>
    /\ AppKeeps

\* The worker of session r appends a cue and rewrites its subtitle file
\* (380-394).
AppWorkerFlush(r) ==
    /\ reqs[r].pc = "r_worker"
    /\ objs[r].running
    /\ Len(objs[r].all_subtitles) < AppCues
    /\ LET subs == Append(objs[r].all_subtitles,
                          MakeCue(Len(objs[r].all_subtitles) + 1,
                                  Len(objs[r].all_subtitles), "hello"))
       IN  /\ objs' = [objs EXCEPT ![r].all_subtitles = subs]
           /\ srt_files' = [srt_files EXCEPT ![objs[r].id] =
                                [exists |-> TRUE, cues |-> subs]]
    /\ Acts(r)
    /\ UNCHANGED << session_counter, reqs, registry >>
    /\ AppKeeps

\* cleanup_session(session_id) (1022-1037): session = sessions[session_id];
\* session.cleanup() stops it and unlinks its srt_path; del sessions[...].
AppCleanup(n) ==
    /\ registry[n] # 0
    /\ LET r == registry[n]
       IN  /\ objs' = [objs EXCEPT ![r].running = FALSE,
                                   ![r].ffmpeg_video_process = 0,
                                   ![r].ffmpeg_audio_process = 0]
           /\ srt_files' = [srt_files EXCEPT ![objs[r].id] = NoFile]
           /\ Acts(r)
    /\ registry' = [registry EXCEPT ![n] = 0]
    /\ UNCHANGED << session_counter, reqs >>
    /\ AppKeeps

\* start_transcription from the request body on (778-788).
ReqCheck(r) ==
    /\ reqs[r].pc = "r_begin"
    /\ \E u \in Sources :
           reqs' = [reqs EXCEPT
                        ![r].pc = IF Accepts(StripUrl(u)) THEN "r_load"
                                  ELSE "r_rejected",
                        ![r].url = u]
    /\ Acts(r)
    /\ UNCHANGED << session_counter, registry, objs, srt_files >>
    /\ AppKeeps

\* finally: if session_id in sessions: del sessions[session_id]
DelFinally(reg, n, raises) == [reg EXCEPT ![n] = 0]

\* session.cleanup(): stop(), the subtitle file, the handles; a cleanup()
\* that raises has done stop() only.
CleanedObj(o) == [o EXCEPT !.running = FALSE, !.ffmpeg_video_process = 0,
                           !.ffmpeg_audio_process = 0]

\* cleanup_session (1022-1037), with a cleanup() that may raise.
RouteCleanup(n) ==
    /\ registry[n] # 0
    /\ \E raises \in BOOLEAN :
         LET r == registry[n]
         IN  /\ objs' = [objs EXCEPT ![r] = CleanedObj(@)]
             /\ srt_files' = IF raises THEN srt_files
                             ELSE [srt_files EXCEPT ![objs[r].id] = NoFile]
             /\ registry' = DelFinally(registry, n, raises)
    /\ hist' = [hist EXCEPT !.actor = registry[n], !.gone = @ \cup {n}]
    /\ UNCHANGED << session_counter, reqs >>
    /\ AppKeeps

\* cleanup_all_sessions (1039-1051): cleanup() of every session of
\* list(sessions.items()), each in its own try, then sessions.clear().
RouteCleanupAll ==
    /\ \E n \in Requests : registry[n] # 0
    /\ \E raisers \in SUBSET {n \in Requests : registry[n] # 0} :
         /\ objs' = [r \in Requests |->
                        IF \E n \in Requests : registry[n] = r
                        THEN CleanedObj(objs[r]) ELSE objs[r]]
         /\ srt_files' = [k \in DOMAIN srt_files |->
                             IF \E n \in Requests :
                                  /\ registry[n] # 0
                                  /\ n \notin raisers
                                  /\ objs[registry[n]].id = k
                             THEN NoFile ELSE srt_files[k]]
    /\ registry' = [n \in Requests |-> 0]
    /\ hist' = [hist EXCEPT !.actor = 0, !.gone = @ \cup {n \in Requests : registry[n] # 0}]
    /\ UNCHANGED << session_counter, reqs >>
    /\ AppKeeps

\* "if session_id not in sessions: return ... 404" of get_status,
\* stop_session and cleanup_session: the id is found.
Found(n) == registry[n] # 0

\* The requests of the run with cleanup requests.
RouteRequests == 2

NextRoutes ==
    \/ \E r \in 1 .. RouteRequests : ReqCheck(r)
    \/ \E r \in 1 .. RouteRequests : ReqLoad(r)
    \/ \E r \in 1 .. RouteRequests : ReqStore(r)
    \/ \E r \in 1 .. RouteRequests : ReqFormatId(r)
    \/ \E r \in 1 .. RouteRequests : ReqNewSession(r)
    \/ \E r \in 1 .. RouteRequests : ReqRegister(r)
    \/ \E n \in Requests : RouteCleanup(n)
    \/ RouteCleanupAll

SpecRoutes == InitApp /\ [][NextRoutes]_vars

NextApp ==
    \/ \E r \in Requests : ReqValidate(r)
    \/ \E r \in Requests : ReqLoad(r)
    \/ \E r \in Requests : ReqStore(r)
    \/ \E r \in Requests : ReqFormatId(r)
    \/ \E r \in Requests : ReqNewSession(r)
    \/ \E r \in Requests : ReqRegister(r)
    \/ \E r \in Requests : AppStart(r)
    \/ \E r \in Requests : AppWorkerFlush(r)
    \/ \E n \in Requests : AppCleanup(n)

SpecApp == InitApp /\ [][NextApp]_vars

\* --------------------- get_status (993-1007) beside a running worker
\* The handler runs on a thread of the server; its statements interleave
\* with the worker's and with cleanup_session.
NotFound ==
    [found |-> FALSE, status |-> "none", error |-> "Sessione non trovata",
     count |-> 0, recent |-> << >>]

\* The session has stored n cues, from chunks 0 .. n-1, and the segmenter
\* has written chunk n; the worker is between two polls.
InitStatus ==
    /\ status = "running"
    /\ error = "none"
    /\ running = TRUE
    /\ use_ffmpeg_whisper = FALSE
    /\ new_subtitles = << >>
    /\ ServerAtRest
    /\ stt = TRUE
    /\ ffmpeg_video_process = 0
    /\ ffmpeg_audio_process = 1
    /\ \E n \in 0 .. StatusCues :
          /\ all_subtitles = [k \in 1 .. n |-> MakeCue(k, k - 1, "hello")]
          /\ subtitle_index = n + 1
          /\ chunk_counter = n
          /\ processed_chunks = 0 .. (n - 1)
          /\ files = [i \in 0 .. StatusCues |-> IF i = n THEN "data" ELSE "none"]
          /\ seg_next = n + 1
          /\ wi = n
          /\ wbase = n
          /\ calls = [i \in 0 .. StatusCues |-> IF i < n THEN 1 ELSE 0]
          /\ okChunks = [k \in 1 .. n |-> k - 1]
          /\ hist = [NoHist EXCEPT
                        !.claimed = [i \in 0 .. StatusCues |-> IF i < n THEN 1 ELSE 0],
                        !.heard = [k \in 1 .. n |-> [chunk |-> k - 1, text |-> "hello"]],
                        !.flushed = n > 0]
          /\ srt = SrtFile(IF n = 0 THEN << Placeholder >> ELSE all_subtitles)
    /\ hls_dir = TRUE
    /\ chunk_dir = TRUE
    /\ enc = << >>
    /\ seg = "running"
    /\ player = "none"
    /\ spc = "s_done"
    /\ wpc = "w_while"
    /\ wtext = ""
    /\ mpc = "m_idle"
    /\ late = "none"
    /\ sessions = TRUE
    /\ ops = 0

GetKeeps ==
    UNCHANGED << status, error, running, use_ffmpeg_whisper, new_subtitles,
                 session_counter, reqs, registry, objs, srt_files,
                 lang_vars, ext_vars, stt,
                 ffmpeg_video_process, ffmpeg_audio_process, all_subtitles,
                 subtitle_index, chunk_counter, srt, hls_dir, chunk_dir,
                 files, enc, seg, seg_next, player, spc, wpc, wi, wbase,
                 wtext, processed_chunks, mpc, late, sessions, ops, calls,
                 okChunks >>

\* if session_id not in sessions: return jsonify({'error': ...}), 404
\* The request names this session or an id that was never given out.
GetLookup ==
    /\ getreq.pc = "g_idle"
    /\ \E known \in BOOLEAN :
          getreq' = IF known /\ sessions
                    THEN [pc |-> "g_fetch", known |-> known, resp |-> << >>]
                    ELSE [pc |-> "g_done", known |-> known, resp |-> NotFound]
    /\ hist' = Other(hist)
    /\ GetKeeps

\* session = sessions[session_id]: KeyError when cleanup_session has
\* deleted the entry since the test.
GetFetch ==
    /\ getreq.pc = "g_fetch"
    /\ getreq' = [getreq EXCEPT !.pc = IF sessions THEN "g_status" ELSE "g_raised"]
    /\ hist' = Other(hist)
    /\ GetKeeps

\* 'status': session.status, 'error': session.error
GetReadStatus ==
    /\ getreq.pc = "g_status"
    /\ getreq' = [pc |-> "g_count", known |-> TRUE,
                  resp |-> [found |-> TRUE, status |-> status, error |-> error]]
    /\ hist' = Other(hist)
    /\ GetKeeps

\* 'subtitles_count': len(session.all_subtitles)
GetCount ==
    /\ getreq.pc = "g_count"
    /\ getreq' = [pc |-> "g_slice", known |-> TRUE,
                  resp |-> [found |-> TRUE, status |-> getreq.resp.status,
                            error |-> getreq.resp.error,
                            count |-> Len(all_subtitles)]]
    /\ hist' = Other(hist)
    /\ GetKeeps

\* 'subtitles': session.all_subtitles[-10:] if session.all_subtitles else []
\* and the response is returned.
GetSlice ==
    /\ getreq.pc = "g_slice"
    /\ getreq' = [pc |-> "g_done", known |-> TRUE,
                  resp |-> [found |-> TRUE, status |-> getreq.resp.status,
                            error |-> getreq.resp.error,
                            count |-> getreq.resp.count,
                            recent |-> LastCues(all_subtitles)]]
    /\ hist' = Other(hist)
    /\ GetKeeps

GetStatus ==
    \/ GetLookup
    \/ GetFetch
    \/ GetReadStatus
    \/ GetCount
    \/ GetSlice

NextStatus ==
    \/ ScanWorker
    \/ GetStatus
    \/ CleanupSession

SpecStatus == InitStatus /\ [][NextStatus]_vars

\* ------------------------- the language handed to the recognizer
\* The hints a user can give: --language / the 'language' field of the
\* request.  "" is the empty string.
LanguageHints == {"auto", "AUTO", "Auto", "en", "it", "es", "fr", "de", ""}

\* str.lower() on the hints above.
Lower(h) == IF h \in {"AUTO", "Auto"} THEN "auto" ELSE h

\* VLCSpeechToText.transcribe_audio (75-76):
\* if self.language and self.language.lower() != "auto": kwargs["language"] = ...
TranscribeAudioLanguage(h) ==
    IF h # "" /\ Lower(h) # "auto" THEN h ELSE "unset"

\* _process_audio (372): language=self.language if self.language != "auto" else None
WorkerLanguage(h) == IF h # "auto" THEN h ELSE "unset"

\* _launch_ffmpeg_with_whisper_filter (163-166): whisper_lang as above, and
\* ":language=" is added "if whisper_lang".
SessionFilterLanguage(h) == IF h # "auto" /\ h # "" THEN h ELSE "unset"

\* SimpleVideoSession (web_app_simple.py 145, 220-221): the same two tests.
SimpleFilterLanguage(h) == IF h # "auto" /\ h # "" THEN h ELSE "unset"

\* transcribe_with_ffmpeg_whisper (ffmpeg_whisper.py 191-192):
\* if language: whisper_filter += f":language={language}"
FfmpegFilterLanguage(h) == IF h # "" THEN h ELSE "unset"

\* launch_vlc_with_subtitles (534), launch_ffplay_with_subtitles (808),
\* process_live_stream (1003), process_audio_stream (118):
\* stt.model.transcribe(chunk_file, language=language, ...)
CliLoopLanguage(h) == h

LanguagePaths ==
    {"transcribe_audio", "session_worker", "session_filter", "simple_filter",
     "ffmpeg_filter", "cli_subtitles", "cli_ffplay", "cli_live"}

LanguageOn(path, h) ==
    CASE path = "transcribe_audio" -> TranscribeAudioLanguage(h)
      [] path = "session_worker"   -> WorkerLanguage(h)
      [] path = "session_filter"   -> SessionFilterLanguage(h)
      [] path = "simple_filter"    -> SimpleFilterLanguage(h)
      [] path = "ffmpeg_filter"    -> FfmpegFilterLanguage(h)
      [] OTHER                     -> CliLoopLanguage(h)

InitLang ==
    /\ status = "none"
    /\ error = "none"
    /\ running = FALSE
    /\ use_ffmpeg_whisper = FALSE
    /\ new_subtitles = << >>
    /\ language \in LanguageHints
    /\ lang_path \in LanguagePaths
    /\ lang_passed = "pending"
    /\ ExtAtRest
    /\ session_counter = 0
    /\ reqs = << >>
    /\ registry = << >>
    /\ objs = << >>
    /\ srt_files = << >>
    /\ getreq = NoGetReq
    /\ stt = TRUE
    /\ ffmpeg_video_process = 0
    /\ ffmpeg_audio_process = 0
    /\ all_subtitles = << >>
    /\ subtitle_index = 1
    /\ chunk_counter = 0
    /\ srt = NoSrtFile
    /\ hls_dir = FALSE
    /\ chunk_dir = FALSE
    /\ files = [i \in Chunks |-> "none"]
    /\ enc = << >>
    /\ seg = "none"
    /\ seg_next = 0
    /\ player = "none"
    /\ spc = "s_done"
    /\ wpc = "w_idle"
    /\ wi = 0
    /\ wbase = 0
    /\ wtext = ""
    /\ processed_chunks = {}
    /\ mpc = "m_idle"
    /\ late = "none"
    /\ sessions = FALSE
    /\ ops = 0
    /\ calls = [i \in Chunks |-> 0]
    /\ okChunks = << >>
    /\ hist = NoHist

\* The call of the recognizer, or the filter string handed to the encoder.
TranscribeCall ==
    /\ lang_passed = "pending"
    /\ lang_passed' = LanguageOn(lang_path, language)
    /\ UNCHANGED << status, error, running, use_ffmpeg_whisper, new_subtitles,
                    server_vars, ext_vars, language, lang_path, stt,
                    ffmpeg_video_process, ffmpeg_audio_process, all_subtitles,
                    subtitle_index, chunk_counter, srt, hls_dir, chunk_dir,
                    files, enc, seg, seg_next, player, spc, wpc, wi, wbase,
                    wtext, processed_chunks, mpc, late, sessions, ops, calls,
                    okChunks, hist >>

NextLang == TranscribeCall

SpecLang == InitLang /\ [][NextLang]_vars

\* ===================================================================== claims

\* No encoder, no segmenter: no child process of the session is alive.
NoChildAlive == ~Alive(seg) /\ \A k \in DOMAIN enc : ~Alive(enc[k])

\* No thread of the session has a step left to take; the SRT monitor counts
\* as at rest only once it has left its loop.
Quiescent ==
    /\ spc = "s_done"
    /\ wpc \in {"w_idle", "w_done"}
    /\ mpc \in {"m_idle", "m_done"}
    /\ late = "none"

\* Position of a status value on initializing -> starting -> running ->
\* {stopped | error}.
Rank(s) ==
    CASE s = "initializing" -> 0
      [] s = "starting" -> 1
      [] s = "running" -> 2
      [] OTHER -> 3

C2_ClaimedAtMostOnce ==
    \A i \in DOMAIN calls : calls[i] <= 1 /\ hist.claimed[i] <= 1

\* C2 witness: the scan is again at an index it claimed in an earlier poll and
\* skipped as zero-size; the file is there, now with data, and another chunk
\* has been through the recognizer.
C2_Witness ==
    /\ wpc = "w_scan"
    /\ wi \in processed_chunks
    /\ FileAt(wi) = "data"
    /\ calls[wi] = 0
    /\ \E j \in DOMAIN calls : calls[j] = 1

\* C3: at most one encoder process is alive at any instant (a restart has
\* ended the previous encoder before the replacement is launched).
C3_OneEncoderAlive ==
    Cardinality({k \in DOMAIN enc : Alive(enc[k])}) <= 1

\* C4: no step moves status backwards on initializing -> starting -> running
\* -> {stopped | error}, and no step changes a status of error or stopped.
C4_StatusForward ==
    [][/\ Rank(status') >= Rank(status)
       /\ status \in {"error", "stopped"} => status' = status]_vars

\* C4 witness: start() has ended with status error and a stop() has run.
C4_Witness ==
    /\ status = "error"
    /\ spc = "s_done"
    /\ hist.stopDone

\* C5: after stop_session has been answered for a session whose status was
\* running, get_status reports the status stop_session answered: stopped.
C5_StoppedReported ==
    (hist.stopRunning /\ sessions) => GetStatusResponse.status = StopResponse

\* C6: once a stop() has returned and the start() thread, the worker and the
\* monitor are at rest, running is false and no encoder or segmenter is alive.
C6_StoppedAtRest ==
    (hist.stopDone /\ Quiescent) => (~running /\ NoChildAlive)

\* C7: after a stop() that ran during a transcription, the worker claims no
\* further chunk.
C7_NoClaimAfterStop ==
    [][hist.stopMid => processed_chunks' = processed_chunks]_vars

\* C8: when the encoder has exited nonzero between its launch and the poll of
\* start(), start() ends with status error and a diagnostic message, and the
\* background thread has stopped polling.
C8_LaunchFailureReported ==
    (hist.failedInWindow /\ spc = "s_done") =>
        (status = "error" /\ error # "none" /\ ~running)

C10_AbsentAfterCleanup ==
    hist.cleanups > 0 => (~srt.exists /\ ~chunk_dir)

\* C11: a chunk whose file was empty when the worker sized it is never handed
\* to the recognizer and never gives a cue, and its index stays in
\* processed_chunks, whatever the file becomes later.
C11_ZeroSizeNeverTranscribed ==
    \A i \in hist.zeroSize :
        /\ calls[i] = 0
        /\ i \in processed_chunks
        /\ \A k \in 1 .. Len(okChunks) : okChunks[k] # i

\* C11 witness: the worker has ended; a chunk it skipped as zero-size got its
\* data afterwards and was passed over until the end.
C11_Witness ==
    /\ wpc = "w_finally"
    /\ \E i \in hist.zeroSize : files[i] = "data" /\ chunk_counter <= i

\* Chunk i has data, has not been claimed and is not behind the watermark.
DataWaiting(i) ==
    /\ files[i] = "data"
    /\ i \notin processed_chunks
    /\ i >= chunk_counter

\* The worker has left its loop.
WorkerEnded == wpc \in {"w_err", "w_err_msg", "w_finally", "w_rmdir", "w_done"}

\* C12: while the session keeps running, a chunk with data that lies at or
\* after the watermark is eventually handed to the recognizer, however many
\* skipped chunks precede it.
C12_LaterChunkTranscribed ==
    \A i \in 0 .. (ScanChunks - 1) :
        DataWaiting(i) ~> (calls[i] > 0 \/ WorkerEnded)

\* The cue list that the recognizer's answers h call for: one cue per answer
\* with text, numbered from 1 without gaps, timed by the chunk's own index.
RECURSIVE CuesOf(_)
CuesOf(h) ==
    IF h = << >> THEN << >>
    ELSE LET front == CuesOf(SubSeq(h, 1, Len(h) - 1))
             last == h[Len(h)]
         IN IF last.text = "" THEN front
            ELSE Append(front, MakeCue(Len(front) + 1, last.chunk, last.text))

\* C13: an empty or whitespace-only answer of the recognizer gives no cue,
\* uses up no cue index and does not take the worker to its except clause;
\* the cues of the other chunks are numbered without gaps and timed by their
\* own chunk index.  (While a cue is being appended and flushed, the cue in
\* hand and its index increment are still to come.)
C13_EmptyTextNoCue ==
    /\ (~use_ffmpeg_whisper /\ wpc \notin {"w_append", "w_flush", "w_close"}) =>
          /\ all_subtitles = CuesOf(hist.heard)
          /\ subtitle_index = Len(all_subtitles) + 1
    /\ wpc = "w_except" =>
          (hist.heard = << >> \/ hist.heard[Len(hist.heard)].chunk # wi)

\* C13 witness: the recognizer answered "", text, "", text, text for chunks
\* 0..4 and the cue list is (1,10,20), (2,30,40), (3,40,50).
C13_Witness ==
    /\ Len(hist.heard) = 5
    /\ \A k \in 1 .. 5 : hist.heard[k].chunk = k - 1
    /\ hist.heard[1].text = "" /\ hist.heard[3].text = ""
    /\ hist.heard[2].text # "" /\ hist.heard[4].text # "" /\ hist.heard[5].text # ""
    /\ wpc = "w_while"
    /\ Len(all_subtitles) = 3
    /\ all_subtitles[1].index = 1 /\ all_subtitles[1].start = 10 /\ all_subtitles[1].end = 20
    /\ all_subtitles[2].index = 2 /\ all_subtitles[2].start = 30 /\ all_subtitles[2].end = 40
    /\ all_subtitles[3].index = 3 /\ all_subtitles[3].start = 40 /\ all_subtitles[3].end = 50

\* The sequence a is an initial part of the sequence b.
IsPrefix(a, b) == Len(a) <= Len(b) /\ \A k \in 1 .. Len(a) : a[k] = b[k]

\* C14: the cues of the store are in strictly ascending start order with
\* ascending indices, and once the worker has flushed the subtitle file, the
\* cues in the file are an initial part of the store's cue sequence.
C14_OrderedAndPrefix ==
    /\ \A k \in 1 .. (Len(all_subtitles) - 1) :
          /\ all_subtitles[k].start < all_subtitles[k + 1].start
          /\ all_subtitles[k].index < all_subtitles[k + 1].index
    /\ (hist.flushed /\ srt.exists) => IsPrefix(srt.cues, all_subtitles)

\* The cue list the subtitle file held before the flush in progress: the
\* placeholder before the first cue, else the store without its last cue.
PreviousCues ==
    IF Len(all_subtitles) <= 1 THEN << Placeholder >>
    ELSE SubSeq(all_subtitles, 1, Len(all_subtitles) - 1)

\* C15: while the worker is flushing, the subtitle file holds the whole
\* previous cue list or the whole new one, never an empty or partial text.
C15_FileAlwaysComplete ==
    (wpc = "w_close" /\ srt.exists) =>
        (srt.cues = PreviousCues \/ srt.cues = all_subtitles)

\* C16: writing any cue list the worker can hold with the flush format and
\* parsing the written file with the session's SRT parser gives back the same
\* sequence: as many cues, each with the same index, start, end and text.
C16_RoundTrip == mpc = "m_parsed" => new_subtitles = all_subtitles

\* C17: when the recognizer raises on a chunk, the handler of that chunk
\* takes it: the chunk file is removed and stays claimed, no cue is appended
\* and no index consumed, the status is left as it is, and the worker goes
\* on with the next index of the scan or the next poll.
C17_RecognizerFailureIsolated ==
    [][ /\ (wpc = "w_in_call" /\ hist'.raised # hist.raised) =>
              /\ wpc' = "w_except"
              /\ status' = status
              /\ all_subtitles' = all_subtitles
        /\ (wpc = "w_except" /\ wpc' # wpc) =>
              /\ status' = status
              /\ all_subtitles' = all_subtitles
              /\ subtitle_index' = subtitle_index
              /\ files'[wi] = "none"
              /\ wi \in processed_chunks'
              /\ wpc' \in {"w_scan", "w_while"} ]_vars

\* The recognizer raised on a chunk once, that chunk is gone and has no cue,
\* a later chunk has been transcribed into a cue, and the session is running.
C17_Witness ==
    /\ status = "running"
    /\ \E i \in hist.raised :
          /\ calls[i] = 1
          /\ files[i] = "none"
          /\ \A k \in 1 .. Len(all_subtitles) :
                 all_subtitles[k].start # i * ChunkDuration
          /\ \E k \in 1 .. Len(all_subtitles) :
                 all_subtitles[k].start > i * ChunkDuration

\* C18: no exception leaves start(); when a step of start() has raised,
\* start() ends with status error, a diagnostic message recorded, and the
\* return value False.
C18_StartReportsFailure ==
    /\ spc # "s_raised"
    /\ (hist.startFailed /\ spc = "s_done") =>
          /\ status = "error"
          /\ error # "none"
          /\ hist.startReturn = "False"

\* start() has ended after the encoder launch raised, with the worker thread
\* already spawned.
C18_Witness ==
    /\ hist.startFailed
    /\ spc = "s_done"
    /\ error = "Errore avvio sessione"
    /\ wpc # "w_idle"

\* C19: once start() has ended with status error, the running flag is false
\* and the worker claims no chunk and starts no transcription any more.
C19_ErrorHaltsSession ==
    [][(spc = "s_done" /\ hist.startReturn = "False" /\ status = "error") =>
          /\ ~running
          /\ processed_chunks' = processed_chunks
          /\ calls' = calls]_vars

\* C20: once a cleanup() has run after a start() that returned False, there
\* is no subtitle file, no HLS directory, no chunk directory and no live
\* encoder or segmenter.
C20_FailedStartReleased ==
    hist.cleanedAfterFail =>
        (~srt.exists /\ ~hls_dir /\ ~chunk_dir /\ NoChildAlive)

\* C21: the requests that have obtained a session id hold pairwise distinct
\* ids, so no two session objects have the same subtitle file path and no
\* registration replaces another session's entry.
C21_UniqueIds ==
    \A r, q \in Requests :
        (r # q /\ reqs[r].id # 0 /\ reqs[q].id # 0) => reqs[r].id # reqs[q].id

C24_RunningAfterLaunch == status = "running" => hist.launchCalls > 0

\* What get_status is to answer for the session as it is.
StatusOfSession ==
    [found |-> TRUE, status |-> status, error |-> error,
     count |-> Len(all_subtitles), recent |-> LastCues(all_subtitles)]

\* C25: get_status never raises; the response it returns for a session it
\* found carries the session's status and error, the number of cues in the
\* store and the last min(10, that number) cues of the store, as they are
\* when it returns; otherwise it returns the not-found response.
C25_StatusResponse ==
    [][/\ getreq'.pc # "g_raised"
       /\ (getreq.pc # "g_done" /\ getreq'.pc = "g_done") =>
             getreq'.resp \in {StatusOfSession', NotFound} ]_vars

\* The state of session object q that the other sessions must leave alone:
\* its fields and the subtitle file at its srt_path.
ObjState(q) == [obj |-> objs[q], file |-> srt_files[objs[q].id]]

\* C26: a step that works on one session leaves every other constructed
\* session's status, error, cue list, running flag, process handles and
\* subtitle file as they were.
C26_SessionsIsolated ==
    [][\A q \in Requests :
          (objs[q] # NoObj /\ hist'.actor # q) => ObjState(q)' = ObjState(q)]_vars

\* C27: on every transcription path, a call made with the hint "auto" gets
\* no language, and a call made with any other hint gets exactly that hint.
C27_AutoMeansNoLanguage ==
    lang_passed # "pending" =>
        lang_passed = (IF language = "auto" THEN "unset" ELSE language)

\* C28: a worker that has left _process_audio, by whatever path, has
\* removed its chunk directory.
C28_WorkerRemovesChunkDir == wpc = "w_done" => ~chunk_dir

\* The worker is inside an iteration of the for loop.
InPoll ==
    wpc \in {"w_scan", "w_settle", "w_transcribe", "w_in_call", "w_append",
             "w_flush", "w_close", "w_unlink", "w_except"}

\* C29: chunk_counter never decreases; a poll starts at the watermark and
\* looks only at the 10 indices from there; when chunk i has been
\* transcribed without error the watermark becomes i + 1; and no index is
\* claimed twice, whether or not its transcription raised.
C29_Watermark ==
    [][/\ chunk_counter' >= chunk_counter
       /\ (wpc = "w_cond" /\ wpc' = "w_scan") => wbase' = chunk_counter
       /\ InPoll' => (wbase' <= wi' /\ wi' < wbase' + Lookahead)
       /\ (wpc = "w_unlink" /\ wpc' # wpc) => chunk_counter' = wi + 1
       /\ \A i \in DOMAIN hist.claimed : hist'.claimed[i] <= 1]_vars

\* A chunk has been transcribed, so the watermark has moved, and the worker
\* is at the last index of the window of a later poll.
C29_Witness ==
    /\ wpc = "w_scan"
    /\ chunk_counter > 0
    /\ wbase = chunk_counter
    /\ wi = wbase + Lookahead - 1
    /\ \E i \in DOMAIN calls : calls[i] > 0 /\ i < chunk_counter

\* The worker is between the start of the transcription of chunk i and the
\* unlink that ends the attempt.
Attempting(i) ==
    /\ wi = i
    /\ wpc \in {"w_in_call", "w_append", "w_flush", "w_close", "w_unlink",
                "w_except"}

\* C30: a chunk file that was handed to the recognizer is gone from the
\* chunk directory as soon as the attempt on it is over, whether it gave a
\* cue, gave empty text or raised; none is there when the worker polls again.
C30_ChunkDeleted ==
    \A i \in DOMAIN files :
        (calls[i] > 0 /\ ~Attempting(i)) => files[i] = "none"

\* The worker polls again, with the session still running and the chunk
\* directory in place, after one chunk raised and another gave a cue.
C30_Witness ==
    /\ wpc = "w_cond"
    /\ running
    /\ chunk_dir
    /\ \E i \in hist.raised : calls[i] > 0
    /\ \E k \in 1 .. Len(okChunks) : calls[okChunks[k]] > 0

\* C31: in every state a concurrent get_status can see, status is "error"
\* exactly when an error message is recorded.
C31_StatusErrorPair == (status = "error") <=> (error # "none")

\* C32: stop() lets no exception out; when it returns, running is False and
\* both process handles are None; and a stop() of a session that is already
\* stopped changes nothing of the session.
C32_StopSwallows ==
    [][/\ stopreq'.pc # "p_raised"
       /\ (stopreq.pc # "p_done" /\ stopreq'.pc = "p_done") =>
             (~running' /\ ffmpeg_video_process' = 0
                        /\ ffmpeg_audio_process' = 0)
       /\ (stopreq' # stopreq /\ ~running /\ ffmpeg_video_process = 0
                              /\ ffmpeg_audio_process = 0) =>
             SessionView' = SessionView]_vars

\* The worker is at its loop condition and the left operand of the "or" is
\* False: the next thing it does is self.ffmpeg_video_process.poll().
PollsEncoder ==
    /\ wpc = "w_cond"
    /\ ffmpeg_audio_process # 0
    /\ ~PollIsNone(seg)

\* C33: whenever the worker polls the encoder handle in its loop condition
\* the handle is set, whatever start() and stop() have done so far.
C33_EncoderHandleSet == PollsEncoder => ffmpeg_video_process # 0

\* C34: the number of cues a session holds, which get_status reports as
\* subtitles_count, never goes down.
C34_CountNeverDecreases == [][Len(all_subtitles') >= Len(all_subtitles)]_vars

\* C39: the translated list is no longer than the original list, and its
\* entries carry the index and the times of the original cue at the same
\* position.
C39_TranslatedAligned ==
    /\ Len(translated_subtitles) <= Len(all_subtitles)
    /\ \A i \in DOMAIN translated_subtitles :
          /\ i \in DOMAIN all_subtitles
          /\ translated_subtitles[i].index = all_subtitles[i].index
          /\ translated_subtitles[i].start = all_subtitles[i].start
          /\ translated_subtitles[i].end = all_subtitles[i].end

\* C35: once a cleanup request for an id has been served, also by a
\* cleanup() that raised or by cleanup-all, the registry does not have the
\* id: get_status, stop_session and cleanup_session answer not found for it.
C35_CleanupRemoves == \A n \in hist.gone : ~Found(n)

\* C36: a start request with no video URL, or with a source that is neither
\* a URL nor an existing file, is answered 400 and changes neither the
\* session counter nor the registry, and creates no session object and no
\* subtitle file; the request does nothing afterwards.
C36_RejectedCreatesNothing ==
    [][\A r \in Requests :
          /\ (reqs[r].pc = "r_begin" /\ reqs'[r].pc # "r_begin"
                /\ reqs'[r].url.rest \in {"  ", "/no/such.mp4"}) =>
                (/\ reqs'[r].pc = "r_rejected"
                 /\ session_counter' = session_counter
                 /\ registry' = registry
                 /\ objs' = objs
                 /\ srt_files' = srt_files)
          /\ reqs[r].pc = "r_rejected" =>
                (reqs'[r] = reqs[r] /\ objs'[r] = NoObj /\ reqs'[r].id = 0)]_vars

\* One request was rejected and another registered its session.
C36_Witness ==
    \E r, q \in Requests :
        /\ reqs[r].pc = "r_rejected"
        /\ reqs[r].url.scheme = "udp://"
        /\ reqs[q].pc = "r_start"
        /\ Found(reqs[q].id)

\* C37: when launch_vlc_with_subtitles is left, by the end of its loop, an
\* interrupt, an exception or sys.exit, every child process it started, an
\* encoder started by a restart included, has been terminated or killed, and
\* the chunk directory is gone.
C37_CliExitCleansUp ==
    wpc \in {"c_done", "c_exit"} =>
        /\ player # "running"
        /\ seg # "running"
        /\ \A k \in DOMAIN enc : enc[k] # "running"
        /\ ~chunk_dir

\* ---------------------------------------------------------------------
\* The body of the session worker's loop and the body of the CLI subtitle
\* loops, each run on the same chunks: the same file size, the same
\* recognizer outcome and the same outcome of opening the subtitle file.

EquivChunks == 3

\* One chunk as a loop finds it: os.path.getsize(chunk_file), what
\* model.transcribe returns or that it raises, and whether
\* open(srt_path, 'w') succeeds.
ChunkInputs == [size : {0, 1}, rec : {"   ", " hello ", "raises"}, open : BOOLEAN]

\* VideoTranscriptionSession._process_audio, chunk i: an empty file is skipped
\* (continue); a recognizer that raises leaves the locals as they are; blank
\* text advances the watermark; text appends the cue, rewrites the subtitle
\* file inside its own try/except (389-397), increments subtitle_index and
\* advances the watermark.
WorkerBody(s, i, x) ==
    IF x.size = 0 \/ x.rec = "raises" THEN s
    ELSE IF Strip(x.rec) = "" THEN [s EXCEPT !.chunk_counter = NextWatermark(i)]
    ELSE LET cues == Append(s.all_subtitles,
                            MakeCue(s.subtitle_index, i, Strip(x.rec)))
         IN  [all_subtitles |-> cues,
              srt |-> IF x.open THEN SrtFile(cues) ELSE s.srt,
              subtitle_index |-> s.subtitle_index + 1,
              chunk_counter |-> NextWatermark(i)]

\* launch_vlc_with_subtitles and launch_ffplay_with_subtitles, chunk i: the
\* same, but the subtitle file is rewritten with no try of its own (552-556,
\* 826-830): an open that raises goes to the except of the chunk (599, 850)
\* after the append, before subtitle_index += 1 and chunk_counter = i + 1.
\* The restart of the encoder (564-590) touches none of these locals.
CliBody(s, i, x) ==
    IF x.size = 0 \/ x.rec = "raises" THEN s
    ELSE IF Strip(x.rec) = "" THEN [s EXCEPT !.chunk_counter = NextWatermark(i)]
    ELSE LET cues == Append(s.all_subtitles,
                            MakeCue(s.subtitle_index, i, Strip(x.rec)))
         IN  IF x.open
             THEN [all_subtitles |-> cues,
                   srt |-> SrtFile(cues),
                   subtitle_index |-> s.subtitle_index + 1,
                   chunk_counter |-> NextWatermark(i)]
             ELSE [s EXCEPT !.all_subtitles = cues]

LoopKeeps ==
    UNCHANGED << status, error, running, use_ffmpeg_whisper, new_subtitles,
                 server_vars, lang_vars, stopreq, simple_vars, stt,
                 ffmpeg_video_process, ffmpeg_audio_process, all_subtitles,
                 subtitle_index, chunk_counter, srt, hls_dir, chunk_dir, files,
                 enc, seg, seg_next, player, spc, wpc, wi, wbase, wtext,
                 processed_chunks, mpc, late, sessions, ops, calls, okChunks,
                 hist >>

\* The segmenter closes the next chunk file.
LoopFeed ==
    /\ Len(loops.inputs) < EquivChunks
    /\ \E x \in ChunkInputs :
            loops' = [loops EXCEPT !.inputs = Append(@, x)]
    /\ LoopKeeps

\* The session worker handles its next chunk (chunk indices start at 0).
LoopWorkerChunk ==
    /\ loops.wn < Len(loops.inputs)
    /\ loops' = [loops EXCEPT !.w = WorkerBody(@, loops.wn, loops.inputs[loops.wn + 1]),
                              !.wn = @ + 1]
    /\ LoopKeeps

\* The CLI loop handles its next chunk.
LoopCliChunk ==
    /\ loops.cn < Len(loops.inputs)
    /\ loops' = [loops EXCEPT !.c = CliBody(@, loops.cn, loops.inputs[loops.cn + 1]),
                              !.cn = @ + 1]
    /\ LoopKeeps

NextLoops == LoopFeed \/ LoopWorkerChunk \/ LoopCliChunk

SpecLoops == Init /\ [][NextLoops]_vars

\* C38: after the same number of chunks, fed the same chunk files, recognizer
\* outcomes and subtitle-file outcomes, the session worker and the CLI
\* subtitle loop have the same cue list, the same next cue number, the same
\* watermark and the same subtitle file.
C38_LoopsAgree ==
    loops.wn = loops.cn => loops.w = loops.c

====
